---- MODULE Spec2Model ----
(***************************************************************************)
(* Oracle trading system: the Risk Manager (risk_manager.py), the signal   *)
(* generator of the strategy (strategy.py) and the execution orchestrator  *)
(* (main.py: its loop, its entry and its exit) as a state machine.         *)
(*                                                                         *)
(* Numbers.  The program computes with Python floats.  Here every amount   *)
(* (equity, price, size, pnl) is an integer and every ratio is kept exact: *)
(* current_drawdown is the pair (num, den) of the quotient the code        *)
(* computes, and a comparison against a configured fraction is done by     *)
(* cross-multiplication.  Fractions of the configuration are in percent.   *)
(*                                                                         *)
(* Time.  `now' is datetime.utcnow() in seconds since 00:00 UTC of the day *)
(* the RiskManager was constructed; utcnow().date() is now \div 86400.     *)
(***************************************************************************)
EXTENDS Integers, Sequences, FiniteSets, TLC

\* ---------------------------------------------------------------- bounds
MaxDays == 1             \* the clock stops after this many day rollovers
MaxCloses == 1           \* close_position calls explored from construction
MaxDailyTrades == 1      \* register_position calls explored per day
MaxLossStreak == 6       \* longest run of losing closes in a drawn session
MaxTrades == 2           \* closes explored on an empty and on a full trade history
MaxTicks == 2            \* iterations of the orchestrator's loop that are explored
MaxCandles == 2          \* update_candle calls explored on each prefilled buffer

\* ------------------------------------------------------- configuration
MaxDailyLossPct == 10        \* RiskConfig.max_daily_loss = 0.10
MaxDrawdownPct == 25         \* RiskConfig.max_drawdown = 0.25
CoolDownAfterLoss == 300     \* RiskConfig.cool_down_after_loss, seconds
\* RiskConfig declares no max_concurrent_trades; RiskManager reads it from the
\* configuration object it is given.  One slot makes the limit reachable with
\* the two symbols below.
MaxConcurrentTrades == 1
WarningZoneTenths == 7       \* max_drawdown * 0.7
DrawdownReductionPct == 50   \* reduction = 0.5
LossStreakFloorPct == 30     \* max(0.3, ...)
LossStreakStepPct == 15      \* consecutive_losses * 0.15
LossStreakFrom == 2          \* consecutive_losses >= 2
CooldownLosses == 3          \* consecutive_losses >= 3
HistoryCapacity == 100       \* keep last 100 trades
StopLossPct == 7             \* StrategyConfig.stop_loss = 0.07
TakeProfitPct == 21          \* StrategyConfig.take_profit = 0.21
RiskPerTradePct == 5         \* StrategyConfig.risk_per_trade = 0.05
MaxPositionPct == 50         \* balance * 0.5 / entry_price
RsiEntryLow == 30            \* StrategyConfig.rsi_entry_low
RsiEntryHigh == 60           \* StrategyConfig.rsi_entry_high
RsiExit == 80                \* StrategyConfig.rsi_exit
RsiPeriod == 14              \* StrategyConfig.rsi_period
\* StrategyConfig declares sma_fast and sma_slow; OracleStrategy reads fast_sma
\* and slow_sma from the configuration object it is given.
FastSma == 20
SlowSma == 50
BufferCapacity == 100        \* keep last 100 candles
MinBalance == 10             \* usdt.available < 10
TickPeriod == 60             \* self._shutdown_event.wait(60)
BackoffPeriod == 10          \* time.sleep(10)
SecondsPerDay == 24 * 60 * 60

Symbols == {"BTCUSDT", "ETHUSDT"}
Sides == {"buy", "sell"}
\* usdt.available as the exchange reports it: never negative, possibly 0
Equities == {0, 900, 1200}
EntryPrice == 100
BaseSize == 200              \* sizes are in hundredths of a unit
\* (exit_price, pnl) pairs handed to close_position
CloseInputs == {<<93, -14>>, <<100, 0>>, <<107, 14>>}

None == << >>
Some(x) == <<x>>
IsSome(o) == o # << >>
Value(o) == o[1]

Max(a, b) == IF a >= b THEN a ELSE b
Min(a, b) == IF a <= b THEN a ELSE b
Abs(x) == IF x < 0 THEN -x ELSE x

VARIABLES
  rm,          \* the RiskManager: a record of its fields, named as in the source
  now,         \* datetime.utcnow(), seconds
  ret,         \* what the last query returned (or raised)
  equity_log,  \* history: the equities fed to update_equity so far (seen, max, last)
  reset_log,   \* history: the dates on which the daily fields were reset, in order
  callers,     \* the threads running the orchestrator's entry sequence
  close_log,   \* history: the trade record of every close so far, oldest first
  engine       \* the orchestrator (OracleTradingEngine) and its strategy's snapshots

vars == <<rm, now, ret, equity_log, reset_log, callers, close_log, engine>>

Today(t) == t \div SecondsPerDay

NoRet == [op |-> "none"]
Callers == {"A", "B"}
IdleCaller == [pc |-> "idle"]

\* ------------------------------------------------------------ strategy
\* strategy.py get_stop_loss_price
GetStopLossPrice(entry_price, side) ==
  IF side = "long" THEN (entry_price * (100 - StopLossPct)) \div 100
  ELSE (entry_price * (100 + StopLossPct)) \div 100

\* strategy.py get_take_profit_price
GetTakeProfitPrice(entry_price, side) ==
  IF side = "long" THEN (entry_price * (100 + TakeProfitPct)) \div 100
  ELSE (entry_price * (100 - TakeProfitPct)) \div 100

\* main.py _execute_entry: Position(symbol, side, entry, size, utcnow(), sl, tp, trade_id).
\* entry_time and trade_id are carried data the Risk Manager never reads; they
\* are left out of the record.
Position(symbol, side, entry, size) ==
  [symbol |-> symbol, side |-> side, entry_price |-> entry, size |-> size,
   stop_loss |-> GetStopLossPrice(entry, side),
   take_profit |-> GetTakeProfitPrice(entry, side)]

NewPosition(symbol, side, size) == Position(symbol, side, EntryPrice, size)

\* A float that is a quotient of whole amounts, kept exact: num / den, den > 0
Whole(n) == [num |-> n, den |-> 1]
Below_Inclusive(a, k) == a.num <= k * a.den
Above_Inclusive(a, k) == a.num >= k * a.den
AtLeast_Strict(a, k) == a.num > k * a.den
\* a < k, a <= k, a >= k, a > k for a quotient a and a whole number k
Below(a, k) == a.num < k * a.den
AtMost(a, k) == a.num <= k * a.den
AtLeast(a, k) == a.num >= k * a.den
Above(a, k) == a.num > k * a.den
\* a = b for two quotients
SameValue(a, b) == a.num * b.den = b.num * a.den

\* strategy.py _calculate_indicators: the snapshot stored for a symbol.  rsi and
\* rsi_prev are quotients in 0..100; fast_sma and slow_sma are read by nothing
\* but the trend computed from them.
Snapshot(rsi_prev, rsi, trend, price) ==
  [rsi_prev |-> rsi_prev, rsi |-> rsi, trend |-> trend, price |-> price]

MinOne_Unclamped(num, den) == [num |-> num, den |-> den]

\* min(1.0, num / den) with den > 0, as a fraction
MinOne(num, den) ==
  IF num >= den THEN [num |-> 1, den |-> 1] ELSE [num |-> num, den |-> den]

HoldSignal(price) ==
  [signal |-> "hold", price |-> price, confidence |-> [num |-> 0, den |-> 1]]

GenerateSignal_LongWithoutSnapshot(indicators, current_position) ==
  IF ~IsSome(indicators)
  THEN [signal |-> "long", price |-> EntryPrice, confidence |-> [num |-> 1, den |-> 1]]
  ELSE HoldSignal(Value(indicators).price)

GenerateSignal_EntryWhileOpen(indicators, current_position) ==
  IF ~IsSome(indicators) THEN HoldSignal(0)
  ELSE LET ind == Value(indicators)
           rsi == ind.rsi
           rsi_prev == ind.rsi_prev
       IN IF current_position = Some("long") /\ AtLeast(rsi, RsiExit)
          THEN [signal |-> "exit_long", price |-> ind.price,
                confidence |-> MinOne(rsi.num - RsiExit * rsi.den, 10 * rsi.den)]
          ELSE IF current_position = Some("short") /\ AtMost(rsi, 100 - RsiExit)
          THEN [signal |-> "exit_short", price |-> ind.price,
                confidence |-> MinOne((100 - RsiExit) * rsi.den - rsi.num, 10 * rsi.den)]
          ELSE IF Below(rsi_prev, RsiEntryLow) /\ AtLeast(rsi, RsiEntryLow)
                  /\ AtMost(rsi, RsiEntryHigh)
                  /\ ind.trend = "bullish"
          THEN [signal |-> "long", price |-> ind.price,
                confidence |-> MinOne(RsiEntryHigh * rsi.den - rsi.num,
                            (RsiEntryHigh - RsiEntryLow) * rsi.den)]
          ELSE IF Above(rsi_prev, 100 - RsiEntryLow) /\ AtMost(rsi, 100 - RsiEntryLow)
                  /\ AtLeast(rsi, 100 - RsiEntryHigh) /\ ind.trend = "bearish"
          THEN [signal |-> "short", price |-> ind.price,
                confidence |-> MinOne(rsi.num - (100 - RsiEntryHigh) * rsi.den,
                            (RsiEntryHigh - RsiEntryLow) * rsi.den)]
          ELSE HoldSignal(ind.price)

\* A candle: of the dict handed to update_candle the strategy reads "close"
\* only; open_time stands for the rest of the dict and tells two candles apart.
Candle(open_time, close) == [open_time |-> open_time, close |-> close]

KeepLastCandles_First(buffer, n) ==
  IF Len(buffer) > n THEN SubSeq(buffer, 1, n) ELSE buffer

\* if len(buffer) > 100: buffer = buffer[-100:]
KeepLastCandles(buffer, n) ==
  IF Len(buffer) > n THEN SubSeq(buffer, Len(buffer) - n + 1, Len(buffer)) ELSE buffer

\* series.rolling(window).sum() at index i (the mean is this over window, and
\* the code only ever divides or compares two means); the guard of
\* _calculate_indicators keeps i >= window, where pandas gives no NaN
RECURSIVE RollingSum(_, _, _)
RollingSum(series, i, window) ==
  IF window = 0 \/ i < 1 THEN 0
  ELSE series[i] + RollingSum(series, i - 1, window - 1)

\* delta.where(delta > 0, 0) and -delta.where(delta < 0, 0); delta[1] is NaN,
\* which both comparisons turn into 0
Gains(closes) ==
  [j \in 1..Len(closes) |->
     IF j >= 2 /\ closes[j] > closes[j - 1] THEN closes[j] - closes[j - 1] ELSE 0]
Losses(closes) ==
  [j \in 1..Len(closes) |->
     IF j >= 2 /\ closes[j] < closes[j - 1] THEN closes[j - 1] - closes[j] ELSE 0]

\* rs = gain / loss.replace(0, np.inf); rsi = 100 - 100 / (1 + rs), at index i.
\* A zero loss becomes inf, the quotient gain / inf is 0, and the RSI is 0;
\* otherwise 100 - 100 / (1 + gain / loss) = 100 * gain / (gain + loss).
Rsi(closes, i) ==
  LET gain == RollingSum(Gains(closes), i, RsiPeriod)
      loss == RollingSum(Losses(closes), i, RsiPeriod)
  IN IF loss = 0 THEN Whole(0) ELSE [num |-> 100 * gain, den |-> gain + loss]

SnapshotDue_OneCandle(n) == n >= 1

\* not (len(candles) < self.slow_sma)
SnapshotDue(n) == n >= SlowSma

\* strategy.py _calculate_indicators: the symbol's snapshot after the call,
\* given the one before it (kept when the buffer is too short)
CalculateIndicators(candles, previous) ==
  IF ~SnapshotDue(Len(candles)) THEN previous
  ELSE LET n == Len(candles)
           closes == [j \in 1..n |-> candles[j].close]
           fast == RollingSum(closes, n, FastSma)
           slow == RollingSum(closes, n, SlowSma)
       IN Some(Snapshot(IF n > 1 THEN Rsi(closes, n - 1) ELSE Rsi(closes, n),
                        Rsi(closes, n),
                        IF fast * SlowSma > slow * FastSma THEN "bullish" ELSE "bearish",
                        closes[n]))

\* strategy.py generate_signal(symbol, current_position): the signal, its price
\* and its confidence.  current_position is None or Some(side).
GenerateSignal(indicators, current_position) ==
  IF ~IsSome(indicators) THEN HoldSignal(0)
  ELSE LET ind == Value(indicators)
           rsi == ind.rsi
           rsi_prev == ind.rsi_prev
       IN IF current_position = Some("long")
          THEN IF AtLeast(rsi, RsiExit)
               THEN [signal |-> "exit_long", price |-> ind.price,
                     confidence |-> MinOne(rsi.num - RsiExit * rsi.den, 10 * rsi.den)]
               ELSE HoldSignal(ind.price)
          ELSE IF current_position = Some("short")
          THEN IF AtMost(rsi, 100 - RsiExit)
               THEN [signal |-> "exit_short", price |-> ind.price,
                     confidence |-> MinOne((100 - RsiExit) * rsi.den - rsi.num, 10 * rsi.den)]
               ELSE HoldSignal(ind.price)
          ELSE IF current_position = None
          THEN IF Below(rsi_prev, RsiEntryLow) /\ AtLeast(rsi, RsiEntryLow)
                  /\ AtMost(rsi, RsiEntryHigh)
                  /\ ind.trend = "bullish"
               THEN [signal |-> "long", price |-> ind.price,
                     confidence |-> MinOne(RsiEntryHigh * rsi.den - rsi.num,
                            (RsiEntryHigh - RsiEntryLow) * rsi.den)]
               ELSE IF Above(rsi_prev, 100 - RsiEntryLow) /\ AtMost(rsi, 100 - RsiEntryLow)
                       /\ AtLeast(rsi, 100 - RsiEntryHigh) /\ ind.trend = "bearish"
               THEN [signal |-> "short", price |-> ind.price,
                     confidence |-> MinOne(rsi.num - (100 - RsiEntryHigh) * rsi.den,
                            (RsiEntryHigh - RsiEntryLow) * rsi.den)]
               ELSE HoldSignal(ind.price)
          ELSE HoldSignal(ind.price)

CalculatePositionSize_Uncapped(balance, entry_price) ==
  (balance * RiskPerTradePct * 100) \div (entry_price * StopLossPct)

\* strategy.py calculate_position_size, in hundredths of a unit
CalculatePositionSize(balance, entry_price) ==
  Min((balance * RiskPerTradePct * 100) \div (entry_price * StopLossPct),
      (balance * MaxPositionPct) \div entry_price)

\* -------------------------------------------------------- risk manager
\* RiskManager.__init__ at time t
NewRiskManager(t) ==
  [positions |-> << >>,
   daily_pnl |-> 0,
   peak_equity |-> 0,
   current_drawdown |-> [num |-> 0, den |-> 1],
   consecutive_losses |-> 0,
   trade_history |-> << >>,
   last_loss_time |-> None,
   daily_trade_count |-> 0,
   last_reset |-> Today(t)]

\* self._current_drawdown >= self.config.max_drawdown
MaxDrawdownExceeded(dd) == dd.num * 100 >= MaxDrawdownPct * dd.den

\* self._current_drawdown >= self.config.max_drawdown * 0.7
InWarningZone(dd) == dd.num * 100 * 10 >= MaxDrawdownPct * WarningZoneTenths * dd.den

ResetDue_SameDay(today, lastReset) == today >= lastReset

\* _reset_daily_metrics: today > self._last_reset
ResetDue(today, lastReset) == today > lastReset

\* _reset_daily_metrics at time t
ResetDailyMetrics(r, t) ==
  IF ResetDue(Today(t), r.last_reset)
  THEN [r EXCEPT !.daily_pnl = 0, !.daily_trade_count = 0, !.last_reset = Today(t)]
  ELSE r

NewPeak_Assign(peak, equity) == equity

\* update_equity: if equity > self._peak_equity: self._peak_equity = equity
NewPeak(peak, equity) == IF equity > peak THEN equity ELSE peak

NewDrawdown_SignFlipped(dd, peak, equity) ==
  IF peak > 0 THEN [num |-> equity - peak, den |-> peak] ELSE dd

NewDrawdown_OverEquity(dd, peak, equity) ==
  IF peak > 0 /\ equity > 0 THEN [num |-> peak - equity, den |-> equity] ELSE dd

\* update_equity: if self._peak_equity > 0: drawdown = (peak - equity) / peak
NewDrawdown(dd, peak, equity) ==
  IF peak > 0 THEN [num |-> peak - equity, den |-> peak] ELSE dd

\* update_equity at time t
UpdateEquity(r, equity, t) ==
  LET r1 == ResetDailyMetrics(r, t)
      peak == NewPeak(r1.peak_equity, equity)
  IN [r1 EXCEPT !.peak_equity = peak,
                !.current_drawdown = NewDrawdown(r1.current_drawdown, peak, equity)]

Decide_CooldownFirst(dd, dailyPnl, peak, losses, lastLoss, t, open, symbol) ==
  IF IsSome(lastLoss) /\ losses >= CooldownLosses
     /\ t < Value(lastLoss) + CoolDownAfterLoss THEN "block"
  ELSE IF MaxDrawdownExceeded(dd) THEN "close_all"
  ELSE IF dailyPnl < 0 /\ peak = 0 THEN "ZeroDivisionError"
  ELSE IF dailyPnl < 0 /\ Abs(dailyPnl) * 100 >= MaxDailyLossPct * Abs(peak) THEN "block"
  ELSE IF Cardinality(open) >= MaxConcurrentTrades THEN "block"
  ELSE IF symbol \in open THEN "block"
  ELSE IF InWarningZone(dd) THEN "reduce_size"
  ELSE "allow"

Decide_NoConcurrencyLimit(dd, dailyPnl, peak, losses, lastLoss, t, open, symbol) ==
  IF MaxDrawdownExceeded(dd) THEN "close_all"
  ELSE IF dailyPnl < 0 /\ peak = 0 THEN "ZeroDivisionError"
  ELSE IF dailyPnl < 0 /\ Abs(dailyPnl) * 100 >= MaxDailyLossPct * Abs(peak) THEN "block"
  ELSE IF IsSome(lastLoss) /\ losses >= CooldownLosses
          /\ t < Value(lastLoss) + CoolDownAfterLoss THEN "block"
  ELSE IF symbol \in open THEN "block"
  ELSE IF InWarningZone(dd) THEN "reduce_size"
  ELSE "allow"

\* check_trade_allowed after _reset_daily_metrics: the RiskAction returned, or
\* "ZeroDivisionError" where self._daily_pnl / self._peak_equity divides by zero
Decide(dd, dailyPnl, peak, losses, lastLoss, t, open, symbol) ==
  IF MaxDrawdownExceeded(dd) THEN "close_all"
  ELSE IF dailyPnl < 0 /\ peak = 0 THEN "ZeroDivisionError"
  ELSE IF dailyPnl < 0 /\ Abs(dailyPnl) * 100 >= MaxDailyLossPct * Abs(peak) THEN "block"
  ELSE IF IsSome(lastLoss) /\ losses >= CooldownLosses
          /\ t < Value(lastLoss) + CoolDownAfterLoss THEN "block"
  ELSE IF Cardinality(open) >= MaxConcurrentTrades THEN "block"
  ELSE IF symbol \in open THEN "block"
  ELSE IF InWarningZone(dd) THEN "reduce_size"
  ELSE "allow"

CheckTradeAllowed_CountsTheCall(r, symbol, t) ==
  LET r1 == ResetDailyMetrics(r, t)
  IN [rm |-> [r1 EXCEPT !.daily_trade_count = @ + 1],
      action |-> Decide(r1.current_drawdown, r1.daily_pnl, r1.peak_equity,
                        r1.consecutive_losses, r1.last_loss_time, t,
                        DOMAIN r1.positions, symbol)]

\* check_trade_allowed(symbol, size, side) at time t: the manager it leaves and
\* the action it returns (size and side are not read)
CheckTradeAllowed(r, symbol, t) ==
  LET r1 == ResetDailyMetrics(r, t)
  IN [rm |-> r1,
      action |-> Decide(r1.current_drawdown, r1.daily_pnl, r1.peak_equity,
                        r1.consecutive_losses, r1.last_loss_time, t,
                        DOMAIN r1.positions, symbol)]

\* register_position: self._positions[position.symbol] = position
RegisterPosition(r, position) ==
  [r EXCEPT !.positions = [s \in DOMAIN r.positions \cup {position.symbol} |->
                             IF s = position.symbol THEN position ELSE r.positions[s]],
            !.daily_trade_count = r.daily_trade_count + 1]

\* close_position: the trade record appended to the history (the timestamps,
\* pnl_percent and the reason string are left out)
TradeRecord(position, exit_price, pnl) ==
  [symbol |-> position.symbol, side |-> position.side,
   entry_price |-> position.entry_price, exit_price |-> exit_price,
   size |-> position.size, pnl |-> pnl]

KeepLast_First(h, n) == IF Len(h) > n THEN SubSeq(h, 1, n) ELSE h

\* self._trade_history = self._trade_history[-100:]
KeepLast(h, n) == IF Len(h) > n THEN SubSeq(h, Len(h) - n + 1, Len(h)) ELSE h

ClosePosition_KeepsPosition(r, symbol, exit_price, pnl, t) ==
  IF symbol \notin DOMAIN r.positions THEN r
  ELSE [r EXCEPT
          !.daily_pnl = r.daily_pnl + pnl,
          !.consecutive_losses = IF pnl < 0 THEN r.consecutive_losses + 1 ELSE 0,
          !.last_loss_time = IF pnl < 0 THEN Some(t) ELSE r.last_loss_time,
          !.trade_history =
             KeepLast(Append(r.trade_history,
                             TradeRecord(r.positions[symbol], exit_price, pnl)),
                      HistoryCapacity)]

ClosePosition_AbsentCounted(r, symbol, exit_price, pnl, t) ==
  IF symbol \notin DOMAIN r.positions
  THEN [r EXCEPT !.daily_pnl = r.daily_pnl + pnl,
                 !.consecutive_losses = IF pnl < 0 THEN r.consecutive_losses + 1 ELSE 0]
  ELSE [r EXCEPT
          !.positions = [s \in DOMAIN r.positions \ {symbol} |-> r.positions[s]],
          !.daily_pnl = r.daily_pnl + pnl,
          !.consecutive_losses = IF pnl < 0 THEN r.consecutive_losses + 1 ELSE 0,
          !.last_loss_time = IF pnl < 0 THEN Some(t) ELSE r.last_loss_time,
          !.trade_history =
             KeepLast(Append(r.trade_history,
                             TradeRecord(r.positions[symbol], exit_price, pnl)),
                      HistoryCapacity)]

\* close_position at time t
ClosePosition(r, symbol, exit_price, pnl, t) ==
  IF symbol \notin DOMAIN r.positions THEN r
  ELSE [r EXCEPT
          !.positions = [s \in DOMAIN r.positions \ {symbol} |-> r.positions[s]],
          !.daily_pnl = r.daily_pnl + pnl,
          !.consecutive_losses = IF pnl < 0 THEN r.consecutive_losses + 1 ELSE 0,
          !.last_loss_time = IF pnl < 0 THEN Some(t) ELSE r.last_loss_time,
          !.trade_history =
             KeepLast(Append(r.trade_history,
                             TradeRecord(r.positions[symbol], exit_price, pnl)),
                      HistoryCapacity)]

Reduction_Multiplied(dd, losses) ==
  LET streak == IF losses >= LossStreakFrom
                THEN Max(LossStreakFloorPct, 100 - losses * LossStreakStepPct)
                ELSE 100
  IN IF InWarningZone(dd) THEN (DrawdownReductionPct * streak) \div 100 ELSE streak

Reduction_NoFloor(dd, losses) ==
  IF InWarningZone(dd) THEN DrawdownReductionPct
  ELSE IF losses >= LossStreakFrom
       THEN Max(0, 100 - losses * LossStreakStepPct)
       ELSE 100

\* get_adjusted_size: the reduction factor, in percent
Reduction(dd, losses) ==
  IF InWarningZone(dd) THEN DrawdownReductionPct
  ELSE IF losses >= LossStreakFrom
       THEN Max(LossStreakFloorPct, 100 - losses * LossStreakStepPct)
       ELSE 100

\* get_adjusted_size: base_size * reduction (a base of whole units, held in
\* hundredths, makes the product exact)
GetAdjustedSize(r, base_size) ==
  (base_size * Reduction(r.current_drawdown, r.consecutive_losses)) \div 100

\* -------------------------------------------------------- orchestrator
\* OracleTradingEngine after initialize(), with its strategy's candle buffers
\* and snapshots (SpecCandles computes the snapshots from the buffers; the
\* other specifications draw the snapshots and leave the buffers aside).  Of
\* the engine's counters only _consecutive_losses is kept; the others
\* (_trade_count, _total_pnl, _daily_pnl, _wins, _losses) feed metrics only.
NoCall == [op |-> "none"]
NewEngine ==
  [candle_buffer |-> [s \in Symbols |-> << >>],
   indicators |-> [s \in Symbols |-> None],
   candle_log |-> [s \in Symbols |-> << >>],   \* history: every candle ingested
   consecutive_losses |-> 0,
   ticks |-> 0,            \* iterations of _main_loop started
   todo |-> << >>,          \* symbols the running iteration has yet to process
   closed_all |-> FALSE,    \* the running iteration has seen CLOSE_ALL
   last |-> NoCall,         \* what the last _process_signal call did
   healthy |-> TRUE,        \* self._healthy
   running |-> TRUE,        \* self._running
   shutdown |-> FALSE,      \* self._shutdown_event.is_set()
   \* where run() is: "created" (initialize() not done), in _main_loop at "loop"
   \* (in or between iterations), "handler" (in the except block, asleep) or
   \* "resumed" (back at the while from the handler), "exited" (_main_loop
   \* returned), "stopped" (run() returned)
   pc |-> "loop",
   loop_errors |-> 0,       \* history: exceptions the loop's handler has caught
   initialized |-> "ok",    \* history: how initialize() ended
   shutdown_orders |-> {},  \* history: the orders shutdown() placed
   exit_code |-> None]      \* what run() returned

\* exchange.get_balances() raising, where a USDT balance is expected (a real
\* balance is never negative)
GetBalancesRaises == Some(-1)

\* exchange.place_order(symbol, side, size, "market"), as called
Order(symbol, side, size) == [symbol |-> symbol, side |-> side, size |-> size]

CloseSide(side) == IF side = "buy" THEN "sell" ELSE "buy"

\* _close_all_positions: one closing order per registered position (an
\* exception of place_order is caught per position); nothing else
CloseAllOrders(r) ==
  {Order(s, CloseSide(r.positions[s].side), r.positions[s].size) : s \in DOMAIN r.positions}

CloseAllPositions_ClosesInRegistry(r) ==
  [rm |-> [r EXCEPT !.positions = << >>], orders |-> CloseAllOrders(r)]

\* _close_all_positions(reason): the manager it leaves and the orders it places
CloseAllPositions(r) == [rm |-> r, orders |-> CloseAllOrders(r)]

EntrySize_Unadjusted(r, action, size) == size

EntrySize_AlwaysAdjusted(r, action, size) == GetAdjustedSize(r, size)

\* _execute_entry: if action == REDUCE_SIZE: size = get_adjusted_size(size)
EntrySize(r, action, size) ==
  IF action = "reduce_size" THEN GetAdjustedSize(r, size) ELSE size

OrderFilled_Always(fill) == TRUE

\* _execute_entry / _execute_exit: `if order:' after place_order, which returned
\* an order ("filled"), returned nothing ("none") or raised ("raised")
OrderFilled(fill) == fill = "filled"

\* _execute_entry(sig) with the balance get_balances reports (None: no USDT
\* entry) and the outcome of place_order: the manager it leaves, the admission
\* decision ("none": not asked), the strategy's size, the orders placed, the
\* outcome of the entry order ("not_called": none placed), and whether an
\* exception left the call
ExecuteEntry(r, sig, symbol, balance, fill, t) ==
  LET side == IF sig.signal = "long" THEN "buy" ELSE "sell"
      quiet == [rm |-> r, admission |-> "none", size |-> 0, orders |-> {},
                fill |-> "not_called", raised |-> FALSE]
  IN IF balance = GetBalancesRaises THEN [quiet EXCEPT !.raised = TRUE]
     ELSE IF ~IsSome(balance) \/ Value(balance) < MinBalance THEN quiet
     ELSE LET size == CalculatePositionSize(Value(balance), sig.price)
              res == CheckTradeAllowed(r, symbol, t)
              asked == [quiet EXCEPT !.rm = res.rm, !.admission = res.action,
                                     !.size = size]
          IN IF res.action = "ZeroDivisionError" THEN [asked EXCEPT !.raised = TRUE]
             ELSE IF res.action = "block" THEN asked
             ELSE IF res.action = "close_all"
             THEN LET closing == CloseAllPositions(res.rm)
                  IN [asked EXCEPT !.rm = closing.rm, !.orders = closing.orders]
             ELSE LET final == EntrySize(res.rm, res.action, size)
                  IN [asked EXCEPT
                        !.orders = {Order(symbol, side, final)},
                        !.fill = fill,
                        !.rm = IF OrderFilled(fill)
                               THEN RegisterPosition(res.rm,
                                      Position(symbol, side, sig.price, final))
                               ELSE res.rm]

ExitPnl_LongFormulaOnly(pos, exit_price) ==
  ((exit_price - pos.entry_price) * pos.size) \div 100

\* _execute_exit: pnl = (exit - entry) * size for side "buy", (entry - exit) *
\* size otherwise (sizes are in hundredths)
ExitPnl(pos, exit_price) ==
  IF pos.side = "buy"
  THEN ((exit_price - pos.entry_price) * pos.size) \div 100
  ELSE ((pos.entry_price - exit_price) * pos.size) \div 100

\* _execute_exit(symbol, sig) with the outcome of place_order: the manager it
\* leaves, the engine's own loss streak, the order placed and the pnl it handed
\* to close_position (None: close_position not called)
ExecuteExit(r, losses, symbol, sig, fill, t) ==
  IF symbol \notin DOMAIN r.positions
  THEN [rm |-> r, consecutive_losses |-> losses, orders |-> {},
        fill |-> "not_called", pnl |-> None]
  ELSE LET pos == r.positions[symbol]
           order == Order(symbol, CloseSide(pos.side), pos.size)
           pnl == ExitPnl(pos, sig.price)
       IN IF OrderFilled(fill)
          THEN [rm |-> ClosePosition(r, symbol, sig.price, pnl, t),
                consecutive_losses |-> IF pnl > 0 THEN 0 ELSE losses + 1,
                orders |-> {order}, fill |-> fill, pnl |-> Some(pnl)]
          ELSE [rm |-> r, consecutive_losses |-> losses, orders |-> {order},
                fill |-> fill, pnl |-> None]

\* _process_signal(symbol): the side of the symbol's position in the registry
\* (None if it has none), handed to generate_signal as it is
CurrentSide(r, symbol) ==
  IF symbol \in DOMAIN r.positions THEN Some(r.positions[symbol].side) ELSE None

\* _process_signal(symbol): the manager and the loss streak it leaves, and the
\* record of the call
ProcessSignal(r, eng, symbol, balance, fill, t) ==
  LET side == CurrentSide(r, symbol)
      sig == GenerateSignal(eng.indicators[symbol], side)
      call == [op |-> "process_signal", symbol |-> symbol, side |-> side,
               signal |-> sig.signal, price |-> sig.price, admission |-> "none",
               size |-> 0, orders |-> {}, fill |-> "not_called", pnl |-> None,
               raised |-> FALSE]
  IN IF sig.signal = "hold"
     THEN [rm |-> r, consecutive_losses |-> eng.consecutive_losses, call |-> call]
     ELSE IF sig.signal \in {"long", "short"}
     THEN LET e == ExecuteEntry(r, sig, symbol, balance, fill, t)
          IN [rm |-> e.rm, consecutive_losses |-> eng.consecutive_losses,
              call |-> [call EXCEPT !.admission = e.admission, !.size = e.size,
                                    !.orders = e.orders, !.fill = e.fill,
                                    !.raised = e.raised]]
     ELSE LET x == ExecuteExit(r, eng.consecutive_losses, symbol, sig, fill, t)
          IN [rm |-> x.rm, consecutive_losses |-> x.consecutive_losses,
              call |-> [call EXCEPT !.orders = x.orders, !.fill = x.fill,
                                    !.pnl = x.pnl]]

\* ------------------------------------------- calls on the RiskManager
\* the history variables, as a call that runs _reset_daily_metrics leaves them
LogReset ==
  reset_log' = IF ResetDue(Today(now), rm.last_reset)
               THEN Append(reset_log, Today(now)) ELSE reset_log

\* the history variable, as close_position leaves it
LogClose(symbol, exit_price, pnl) ==
  close_log' = IF symbol \in DOMAIN rm.positions
               THEN Append(close_log, TradeRecord(rm.positions[symbol], exit_price, pnl))
               ELSE close_log

CallUpdateEquity(equity) ==
  /\ rm' = UpdateEquity(rm, equity, now)
  /\ LogReset
  /\ equity_log' = [seen |-> TRUE,
                    max |-> IF equity_log.seen THEN Max(equity_log.max, equity) ELSE equity,
                    last |-> equity]
  /\ ret' = NoRet
  /\ UNCHANGED <<now, callers, close_log, engine>>

CallCheckTradeAllowed(symbol) ==
  LET res == CheckTradeAllowed(rm, symbol, now)
  IN /\ rm' = res.rm
     /\ LogReset
     /\ ret' = [op |-> "check_trade_allowed", symbol |-> symbol, action |-> res.action]
     /\ UNCHANGED <<now, equity_log, callers, close_log, engine>>

CallRegisterPosition(position) ==
  /\ rm' = RegisterPosition(rm, position)
  /\ ret' = NoRet
  /\ UNCHANGED <<now, equity_log, reset_log, callers, close_log, engine>>

CallClosePosition(symbol, exit_price, pnl) ==
  /\ rm' = ClosePosition(rm, symbol, exit_price, pnl, now)
  /\ LogClose(symbol, exit_price, pnl)
  /\ ret' = NoRet
  /\ UNCHANGED <<now, equity_log, reset_log, callers, engine>>

CallGetAdjustedSize(base_size) ==
  /\ ret' = [op |-> "get_adjusted_size", base |-> base_size,
             size |-> GetAdjustedSize(rm, base_size)]
  /\ UNCHANGED <<rm, now, equity_log, reset_log, callers, close_log, engine>>

\* get_metrics: runs _reset_daily_metrics, then only reads
CallGetMetrics ==
  /\ rm' = ResetDailyMetrics(rm, now)
  /\ LogReset
  /\ ret' = NoRet
  /\ UNCHANGED <<now, equity_log, callers, close_log, engine>>

\* the wall clock passes midnight UTC
NextDay ==
  /\ Today(now) < MaxDays
  /\ now' = now + SecondsPerDay
  /\ ret' = NoRet
  /\ UNCHANGED <<rm, equity_log, reset_log, callers, close_log, engine>>

\* ------------------------- Spec: any sequence of calls on a new manager
Init ==
  /\ now = 0
  /\ rm = NewRiskManager(now)
  /\ ret = NoRet
  /\ equity_log = [seen |-> FALSE, max |-> 0, last |-> 0]
  /\ reset_log = << >>
  /\ callers = [c \in Callers |-> IdleCaller]
  /\ close_log = << >>
  /\ engine = NewEngine

DoUpdateEquity == \E e \in Equities : CallUpdateEquity(e)
DoCheckTradeAllowed == \E s \in Symbols : CallCheckTradeAllowed(s)
DoRegisterPosition ==
  /\ rm.daily_trade_count < MaxDailyTrades
  /\ \E s \in Symbols, sd \in Sides : CallRegisterPosition(NewPosition(s, sd, BaseSize))
DoClosePosition ==
  /\ Len(rm.trade_history) < MaxCloses
  /\ \E s \in Symbols, c \in CloseInputs : CallClosePosition(s, c[1], c[2])
DoGetAdjustedSize == CallGetAdjustedSize(BaseSize)

Next ==
  \/ DoUpdateEquity
  \/ DoCheckTradeAllowed
  \/ DoRegisterPosition
  \/ DoClosePosition
  \/ DoGetAdjustedSize
  \/ CallGetMetrics
  \/ NextDay

Spec == Init /\ [][Next]_vars

\* --------------- SpecAdmission: the queries, on managers mid-session
\* A session: a new manager, optionally fed a peak of 1200 and then a last
\* equity, then a run of trades on one symbol closed at second 300 with the
\* given pnls, then the given symbols left open.
LossAmounts == {-1, -120}
Sessions ==
  {<< >>, <<14>>, <<-14, 14>>}
    \cup {[i \in 1..k |-> a] : k \in 1..MaxLossStreak, a \in LossAmounts}
SessionEquities == {1200, 1000, 990, 900, 0}
SessionCloseTime == CoolDownAfterLoss
AdmissionTimes == {SessionCloseTime, SessionCloseTime + CoolDownAfterLoss - 1,
                   SessionCloseTime + CoolDownAfterLoss,
                   SecondsPerDay + SessionCloseTime}
SizeInputs == {200, 300}

RECURSIVE RunTrades(_, _, _)
RunTrades(r, pnls, t) ==
  IF pnls = << >> THEN r
  ELSE RunTrades(ClosePosition(RegisterPosition(r, NewPosition("BTCUSDT", "buy", BaseSize)),
                               "BTCUSDT", EntryPrice, Head(pnls), t),
                 Tail(pnls), t)

RECURSIVE OpenAll(_, _)
OpenAll(r, symbols) ==
  IF symbols = {} THEN r
  ELSE LET s == CHOOSE x \in symbols : TRUE
       IN OpenAll(RegisterPosition(r, NewPosition(s, "buy", BaseSize)), symbols \ {s})

RECURSIVE FeedEquities(_, _, _)
FeedEquities(r, equities, t) ==
  IF equities = << >> THEN r
  ELSE FeedEquities(UpdateEquity(r, Head(equities), t), Tail(equities), t)

InitAdmission ==
  \E fed \in {<< >>} \cup {<<1200, e>> : e \in SessionEquities},
     pnls \in Sessions, open \in SUBSET Symbols, t \in AdmissionTimes :
       /\ rm = OpenAll(RunTrades(FeedEquities(NewRiskManager(0), fed, 0),
                                 pnls, SessionCloseTime), open)
       /\ now = t
       /\ equity_log = IF fed = << >> THEN [seen |-> FALSE, max |-> 0, last |-> 0]
                       ELSE [seen |-> TRUE, max |-> 1200, last |-> fed[2]]
       /\ ret = NoRet
       /\ reset_log = << >>
       /\ callers = [c \in Callers |-> IdleCaller]
       /\ close_log = rm.trade_history
       /\ engine = NewEngine

AdmGetAdjustedSize == \E b \in SizeInputs : CallGetAdjustedSize(b)

NextAdmission ==
  \/ DoCheckTradeAllowed
  \/ AdmGetAdjustedSize

SpecAdmission == InitAdmission /\ [][NextAdmission]_vars

\* ------ SpecConc: two threads run the orchestrator's entry sequence once
ConcEquities == {1200, 990}

\* _execute_entry up to the admission check: check_trade_allowed holds the
\* manager's lock for the call alone
EntryCheck(c) ==
  /\ callers[c].pc = "idle"
  /\ \E s \in Symbols, sd \in Sides :
       LET res == CheckTradeAllowed(rm, s, now)
           go == [symbol |-> s, side |-> sd, size |-> BaseSize]
       IN /\ rm' = res.rm
          /\ LogReset
          /\ callers' = [callers EXCEPT ![c] =
               IF res.action = "allow" THEN [pc |-> "order"] @@ go
               ELSE IF res.action = "reduce_size" THEN [pc |-> "adjust"] @@ go
               ELSE [pc |-> "done"]]
  /\ UNCHANGED <<now, ret, equity_log, close_log, engine>>

\* REDUCE_SIZE: size = self.risk_manager.get_adjusted_size(size)
EntryAdjust(c) ==
  /\ callers[c].pc = "adjust"
  /\ callers' = [callers EXCEPT ![c].pc = "order",
                                ![c].size = GetAdjustedSize(rm, callers[c].size)]
  /\ UNCHANGED <<rm, now, ret, equity_log, reset_log, close_log, engine>>

\* order = self.exchange.place_order(...): filled, or nothing / an exception
EntryPlaceOrder(c) ==
  /\ callers[c].pc = "order"
  /\ \E filled \in BOOLEAN :
       callers' = [callers EXCEPT ![c] =
                     IF filled THEN [callers[c] EXCEPT !.pc = "register"]
                     ELSE [pc |-> "done"]]
  /\ UNCHANGED <<rm, now, ret, equity_log, reset_log, close_log, engine>>

\* self.risk_manager.register_position(pos)
EntryRegister(c) ==
  /\ callers[c].pc = "register"
  /\ rm' = RegisterPosition(rm, NewPosition(callers[c].symbol, callers[c].side,
                                            callers[c].size))
  /\ callers' = [callers EXCEPT ![c] = [pc |-> "done"]]
  /\ UNCHANGED <<now, ret, equity_log, reset_log, close_log, engine>>

ConcUpdateEquity == \E e \in ConcEquities : CallUpdateEquity(e)

NextConc ==
  \/ \E c \in Callers : EntryCheck(c)
  \/ \E c \in Callers : EntryAdjust(c)
  \/ \E c \in Callers : EntryPlaceOrder(c)
  \/ \E c \in Callers : EntryRegister(c)
  \/ ConcUpdateEquity
  \/ NextDay

SpecConc == Init /\ [][NextConc]_vars

\* ---- SpecTrades: register_position / close_position, call after call,
\* ---- on a manager whose trade history is empty or about to be full
\* The histories drawn: no close yet, one close short of the capacity, full.
Prefills == {0, HistoryCapacity - 1, HistoryCapacity}

\* the k-th trade of a prefilled history: BTCUSDT bought at 100, sold at 100 + k
PrefillExit(k) == EntryPrice + k

\* trades lo..hi of a prefilled history, run on manager r: the first half, then
\* (on the manager that leaves, once it is computed) the second half
RECURSIVE Prefill(_, _, _, _)
Prefill(r, lo, hi, t) ==
  IF lo > hi THEN r
  ELSE IF lo = hi
  THEN LET pos == NewPosition("BTCUSDT", "buy", BaseSize)
       IN ClosePosition(RegisterPosition(r, pos), "BTCUSDT", PrefillExit(lo),
                        ExitPnl(pos, PrefillExit(lo)), t)
  ELSE LET mid == (lo + hi) \div 2
           half == Prefill(r, lo, mid, t)
       IN IF Len(half.trade_history) >= 0 THEN Prefill(half, mid + 1, hi, t) ELSE half

PrefillLog(n) ==
  [k \in 1..n |-> LET pos == NewPosition("BTCUSDT", "buy", BaseSize)
                  IN TradeRecord(pos, PrefillExit(k), ExitPnl(pos, PrefillExit(k)))]

InitTrades ==
  \E n \in Prefills :
    /\ rm = Prefill(NewRiskManager(0), 1, n, 0)
    /\ close_log = PrefillLog(n)
    /\ now = SessionCloseTime
    /\ ret = NoRet
    /\ equity_log = [seen |-> FALSE, max |-> 0, last |-> 0]
    /\ reset_log = << >>
    /\ callers = [c \in Callers |-> IdleCaller]
    /\ engine = NewEngine

\* closes are explored up to MaxTrades past an empty history and past a full one
TradesLeft ==
  \/ Len(close_log) < MaxTrades
  \/ /\ Len(close_log) >= HistoryCapacity - 1
     /\ Len(close_log) < HistoryCapacity + MaxTrades

\* register_position, as the single-threaded orchestrator calls it: for a
\* symbol that check_trade_allowed found not open
TradeRegister ==
  /\ TradesLeft
  /\ \E s \in Symbols \ DOMAIN rm.positions, sd \in Sides :
       CallRegisterPosition(NewPosition(s, sd, BaseSize))

\* close_position(symbol, exit_price, pnl, reason); ret records the call and
\* whether the symbol was open
TradeClose ==
  /\ TradesLeft
  /\ \E s \in Symbols, c \in CloseInputs :
       /\ rm' = ClosePosition(rm, s, c[1], c[2], now)
       /\ LogClose(s, c[1], c[2])
       /\ ret' = [op |-> "close_position", symbol |-> s, pnl |-> c[2],
                  found |-> s \in DOMAIN rm.positions]
       /\ UNCHANGED <<now, equity_log, reset_log, callers, engine>>

NextTrades ==
  \/ TradeRegister
  \/ TradeClose

SpecTrades == InitTrades /\ [][NextTrades]_vars

\* ------ SpecSignal: generate_signal on every snapshot and current side
\* RSI values on and next to every threshold the code compares with, some of
\* them not whole (29.5, 60.5, 79.5)
RsiPrevValues ==
  {Whole(n) : n \in {0, 28, 29, 30, 45, 70, 71, 72, 100}} \cup {[num |-> 59, den |-> 2]}
RsiValues ==
  {Whole(n) : n \in {0, 10, 15, 19, 20, 21, 29, 30, 39, 40, 45, 55, 60, 61, 70, 71,
                     79, 80, 85, 90, 100}}
    \cup {[num |-> 121, den |-> 2], [num |-> 159, den |-> 2]}
Trends == {"bullish", "bearish"}
Snapshots ==
  {Snapshot(p, r, t, EntryPrice) : p \in RsiPrevValues, r \in RsiValues, t \in Trends}
\* current_position as documented ("long", "short", None) and as _process_signal
\* passes it (the side stored in the registry: "buy", "sell", or None)
SignalSides == {None, Some("long"), Some("short"), Some("buy"), Some("sell")}

\* update_candle(symbol, candle) leaves the symbol's snapshot (re)computed; the
\* snapshot is drawn, and the candles that give it are not represented
UpdateCandle(symbol, snapshot) ==
  /\ engine' = [engine EXCEPT !.indicators[symbol] = Some(snapshot)]
  /\ ret' = NoRet
  /\ UNCHANGED <<rm, now, equity_log, reset_log, callers, close_log>>

SignalUpdateCandle == \E snap \in Snapshots : UpdateCandle("BTCUSDT", snap)

CallGenerateSignal(symbol, current_position) ==
  /\ ret' = [op |-> "generate_signal", symbol |-> symbol,
             position |-> current_position,
             sig |-> GenerateSignal(engine.indicators[symbol], current_position)]
  /\ UNCHANGED <<rm, now, equity_log, reset_log, callers, close_log, engine>>

SignalQuery == \E cp \in SignalSides : CallGenerateSignal("BTCUSDT", cp)

NextSignal ==
  \/ SignalUpdateCandle
  \/ SignalQuery

SpecSignal == Init /\ [][NextSignal]_vars

\* ------------- SpecExit: _execute_exit on positions the orchestrator opened
ExitSizes == {200, 600}
ExitPrices == {90, 100, 107, 110}
Fills == {"filled", "none", "raised"}

\* the registry after the orchestrator entered the given symbols
RECURSIVE Entered(_, _, _, _)
Entered(r, symbols, side, size) ==
  IF symbols = {} THEN r
  ELSE LET s == CHOOSE x \in symbols : TRUE
       IN Entered(RegisterPosition(r, Position(s, side[s], EntryPrice, size[s])),
                  symbols \ {s}, side, size)

InitExit ==
  \E open \in SUBSET Symbols, side \in [Symbols -> Sides], size \in [Symbols -> ExitSizes] :
    /\ rm = Entered(UpdateEquity(NewRiskManager(0), 1200, 0), open, side, size)
    /\ now = 0
    /\ ret = NoRet
    /\ equity_log = [seen |-> TRUE, max |-> 1200, last |-> 1200]
    /\ reset_log = << >>
    /\ callers = [c \in Callers |-> IdleCaller]
    /\ close_log = << >>
    /\ engine = NewEngine

\* _execute_exit(symbol, sig) for a signal at the given price
CallExecuteExit(symbol, price, fill) ==
  LET sig == [signal |-> "exit", price |-> price]
      x == ExecuteExit(rm, engine.consecutive_losses, symbol, sig, fill, now)
  IN /\ rm' = x.rm
     /\ close_log' = IF IsSome(x.pnl)
                      THEN Append(close_log, TradeRecord(rm.positions[symbol], price,
                                                         Value(x.pnl)))
                      ELSE close_log
     /\ engine' = [engine EXCEPT
                     !.consecutive_losses = x.consecutive_losses,
                     !.last = [op |-> "execute_exit", symbol |-> symbol,
                               pos |-> IF symbol \in DOMAIN rm.positions
                                       THEN Some(rm.positions[symbol]) ELSE None,
                               price |-> price,
                               orders |-> x.orders, fill |-> x.fill, pnl |-> x.pnl]]
     /\ ret' = NoRet
     /\ UNCHANGED <<now, equity_log, reset_log, callers>>

DoExecuteExit == \E s \in Symbols, p \in ExitPrices, f \in Fills : CallExecuteExit(s, p, f)

NextExit == DoExecuteExit

SpecExit == InitExit /\ [][NextExit]_vars

\* ---------- SpecEngine: the orchestrator's loop, one thread, tick by tick
TickSymbols == <<"BTCUSDT", "ETHUSDT">>
\* usdt.available at the top of an iteration: no drawdown, warning zone, breaker
TickBalances == {1200, 960, 900}
\* get_balances in _execute_entry: no USDT entry, too little, enough, an exception
EntryBalances == {None, Some(5), Some(1200), GetBalancesRaises}
\* the snapshots an outside caller's candles leave: a long crossing, a short
\* crossing, overbought (exit of a long), oversold (exit of a short)
EngineSnapshots ==
  {Snapshot(Whole(28), Whole(45), "bullish", EntryPrice),
   Snapshot(Whole(72), Whole(55), "bearish", EntryPrice),
   Snapshot(Whole(60), Whole(85), "bullish", 110),
   Snapshot(Whole(40), Whole(15), "bearish", 90)}

\* initialize() succeeded: the Risk Manager was fed the balance of 1200
InitEngine ==
  /\ now = 0
  /\ rm = UpdateEquity(NewRiskManager(0), 1200, 0)
  /\ ret = NoRet
  /\ equity_log = [seen |-> TRUE, max |-> 1200, last |-> 1200]
  /\ reset_log = << >>
  /\ callers = [c \in Callers |-> IdleCaller]
  /\ close_log = << >>
  /\ engine = NewEngine

\* candles arrive from an outside caller between two iterations
EngineUpdateCandle ==
  /\ engine.todo = << >>
  /\ engine.ticks < MaxTicks
  /\ \E s \in Symbols, snap \in EngineSnapshots : UpdateCandle(s, snap)

\* _main_loop, top of an iteration: get_balances (which may raise: the
\* iteration ends in the handler), update_equity if there is a USDT balance
TickStart ==
  /\ engine.todo = << >>
  /\ engine.pc \in {"loop", "resumed"} /\ ~engine.shutdown
  /\ engine.ticks < MaxTicks
  \* wait(60) ended the iteration before; the handler's sleep is counted there
  /\ now' = now + (IF engine.pc = "resumed" THEN 0 ELSE TickPeriod)
  /\ \E ok \in BOOLEAN, balance \in {None} \cup {Some(b) : b \in TickBalances} :
       LET fed == ok /\ IsSome(balance)
       IN /\ rm' = IF fed THEN UpdateEquity(rm, Value(balance), now') ELSE rm
          /\ equity_log' =
               IF fed THEN [seen |-> TRUE,
                            max |-> IF equity_log.seen
                                    THEN Max(equity_log.max, Value(balance))
                                    ELSE Value(balance),
                            last |-> Value(balance)]
               ELSE equity_log
          /\ reset_log' = IF fed /\ ResetDue(Today(now'), rm.last_reset)
                          THEN Append(reset_log, Today(now')) ELSE reset_log
          /\ engine' = [engine EXCEPT !.ticks = @ + 1,
                                      !.todo = IF ok THEN TickSymbols ELSE << >>,
                                      !.closed_all = FALSE,
                                      !.last = NoCall,
                                      !.healthy = ok,
                                      !.pc = IF ok THEN "loop" ELSE "handler",
                                      !.loop_errors = IF ok THEN @ ELSE @ + 1]
  /\ ret' = NoRet
  /\ UNCHANGED <<callers, close_log>>

\* _main_loop: _process_signal(symbol) for the next symbol of the iteration; an
\* exception that leaves it ends the iteration
ProcessNext ==
  /\ engine.todo # << >> /\ ~engine.shutdown
  /\ \E balance \in EntryBalances, fill \in Fills :
       LET symbol == Head(engine.todo)
           res == ProcessSignal(rm, engine, symbol, balance, fill, now)
       IN /\ rm' = res.rm
          /\ engine' = [engine EXCEPT
                          !.consecutive_losses = res.consecutive_losses,
                          !.todo = IF res.call.raised THEN << >> ELSE Tail(@),
                          !.closed_all = @ \/ res.call.admission = "close_all",
                          !.last = res.call,
                          !.healthy = ~res.call.raised,
                          !.pc = IF res.call.raised THEN "handler" ELSE "loop",
                          !.loop_errors = IF res.call.raised THEN @ + 1 ELSE @]
          /\ close_log' = IF IsSome(res.call.pnl)
                           THEN Append(close_log,
                                       TradeRecord(rm.positions[symbol], res.call.price,
                                                   Value(res.call.pnl)))
                           ELSE close_log
          /\ reset_log' = IF res.call.admission # "none"
                              /\ ResetDue(Today(now), rm.last_reset)
                           THEN Append(reset_log, Today(now)) ELSE reset_log
  /\ ret' = NoRet
  /\ UNCHANGED <<now, equity_log, callers>>

AfterHandler_LoopEnds == "exited"

\* where the except block leaves _main_loop: the try is inside the while
AfterHandler == "resumed"

\* _main_loop, the except block: _healthy = False (set when the exception was
\* caught), time.sleep(10), _healthy = True, and back to the while
LoopBackoff ==
  /\ engine.pc = "handler"
  /\ now' = now + BackoffPeriod
  /\ engine' = [engine EXCEPT !.healthy = TRUE, !.pc = AfterHandler]
  /\ ret' = NoRet
  /\ UNCHANGED <<rm, equity_log, reset_log, callers, close_log>>

\* the handler of SIGINT / SIGTERM: self._shutdown_event.set()
SignalShutdown ==
  /\ ~engine.shutdown /\ engine.pc \notin {"exited", "stopped"}
  /\ engine' = [engine EXCEPT !.shutdown = TRUE]
  /\ UNCHANGED <<rm, now, ret, equity_log, reset_log, callers, close_log>>

LoopExit_OnlyBetweenTicks ==
  /\ engine.shutdown /\ engine.pc \in {"loop", "resumed"} /\ engine.todo = << >>
  /\ engine' = [engine EXCEPT !.pc = "exited"]
  /\ UNCHANGED <<rm, now, ret, equity_log, reset_log, callers, close_log>>

\* _main_loop with the event set: the for loop breaks before the next symbol,
\* wait(60) returns at once, the while ends and _main_loop returns
LoopExit ==
  /\ engine.shutdown /\ engine.pc \in {"loop", "resumed"}
  /\ engine' = [engine EXCEPT !.todo = << >>, !.pc = "exited"]
  /\ UNCHANGED <<rm, now, ret, equity_log, reset_log, callers, close_log>>

NextEngine ==
  \/ EngineUpdateCandle
  \/ TickStart
  \/ ProcessNext
  \/ LoopBackoff
  \/ SignalShutdown
  \/ LoopExit

SpecEngine == InitEngine /\ [][NextEngine]_vars

\* the loop's thread keeps running: each of its steps is taken once it can be
\* (candles and the shutdown signal come from outside and need not come)
SpecEngineLive ==
  /\ SpecEngine
  /\ WF_vars(TickStart) /\ WF_vars(ProcessNext) /\ WF_vars(LoopBackoff) /\ WF_vars(LoopExit)

\* ---------- SpecEntry: _execute_entry on managers mid-session
\* the entry signals the strategy hands over, at the price of 100
EntrySignals ==
  {[signal |-> s, price |-> EntryPrice, confidence |-> [num |-> 1, den |-> 2]] :
     s \in {"long", "short"}}

\* _execute_entry(sig) for the symbol; engine.last records the call, with the
\* loss streak and the warning zone of the manager it met
CallExecuteEntry(symbol, sig, balance, fill) ==
  LET e == ExecuteEntry(rm, sig, symbol, balance, fill, now)
  IN /\ rm' = e.rm
     /\ engine' = [engine EXCEPT !.last =
                     [op |-> "execute_entry", symbol |-> symbol,
                      signal |-> sig.signal, admission |-> e.admission,
                      size |-> e.size, orders |-> e.orders, fill |-> e.fill,
                      raised |-> e.raised,
                      losses |-> rm.consecutive_losses,
                      warning |-> InWarningZone(rm.current_drawdown)]]
     /\ reset_log' = IF e.admission # "none" /\ ResetDue(Today(now), rm.last_reset)
                     THEN Append(reset_log, Today(now)) ELSE reset_log
     /\ ret' = NoRet
     /\ UNCHANGED <<now, equity_log, callers, close_log>>

DoExecuteEntry ==
  \E symbol \in Symbols, sig \in EntrySignals, balance \in EntryBalances,
     fill \in Fills : CallExecuteEntry(symbol, sig, balance, fill)

NextEntry == DoExecuteEntry

SpecEntry == InitAdmission /\ [][NextEntry]_vars

\* ------ SpecStatus: get_status on the read path, the orchestrator writing
\* get_metrics, after its _reset_daily_metrics: the RiskMetrics it returns
\* (win_rate and daily_drawdown, two quotients of the fields here, left out)
GetMetrics(r) ==
  [total_equity |-> r.peak_equity,
   realized_pnl_today |-> r.daily_pnl,
   max_drawdown |-> r.current_drawdown,
   open_positions |-> Cardinality(DOMAIN r.positions),
   daily_trades |-> r.daily_trade_count,
   consecutive_losses |-> r.consecutive_losses]

\* get_status, the "positions" entry: what the comprehension keeps of each
\* position
StatusPositions(positions) ==
  [s \in DOMAIN positions |->
     [side |-> positions[s].side, entry |-> positions[s].entry_price,
      size |-> positions[s].size, sl |-> positions[s].stop_loss,
      tp |-> positions[s].take_profit]]

RecentTradesCount == 5

\* self._trade_history[-5:]
RecentTrades(history) == KeepLast(history, RecentTradesCount)

StatusReader == "A"

\* get_status, first statement: metrics = self.get_metrics(), the one part of
\* the call that holds the manager's lock.  The reader keeps the manager as it
\* was at that instant (history) next to the metrics.
StatusGetMetrics ==
  /\ callers[StatusReader].pc = "idle"
  /\ rm' = ResetDailyMetrics(rm, now)
  /\ LogReset
  /\ callers' = [callers EXCEPT ![StatusReader] =
                   [pc |-> "metrics", metrics |-> GetMetrics(rm'), at |-> rm']]
  /\ UNCHANGED <<now, ret, equity_log, close_log, engine>>

\* get_status, the dict comprehension: self._positions.items() is created,
\* without the lock; the iterator remembers the size of the dict
StatusIterPositions ==
  /\ callers[StatusReader].pc = "metrics"
  /\ callers' = [callers EXCEPT ![StatusReader] =
                   [@ EXCEPT !.pc = "iterating"]
                     @@ [used |-> Cardinality(DOMAIN rm.positions)]]
  /\ UNCHANGED <<rm, now, ret, equity_log, reset_log, close_log, engine>>

\* get_status, the dict comprehension runs to its end: RuntimeError
\* ("dictionary changed size during iteration") if the registry has another
\* size than when the iterator was created, else the entries read
StatusCollectPositions ==
  /\ callers[StatusReader].pc = "iterating"
  /\ callers' = [callers EXCEPT ![StatusReader] =
                   IF Cardinality(DOMAIN rm.positions) # callers[StatusReader].used
                   THEN [@ EXCEPT !.pc = "raised"]
                   ELSE [@ EXCEPT !.pc = "positions"]
                          @@ [positions |-> StatusPositions(rm.positions)]]
  /\ UNCHANGED <<rm, now, ret, equity_log, reset_log, close_log, engine>>

\* get_status, "recent_trades": self._trade_history[-5:], without the lock,
\* and the return of the dict
StatusReadTrades ==
  /\ callers[StatusReader].pc = "positions"
  /\ callers' = [callers EXCEPT ![StatusReader] =
                   [@ EXCEPT !.pc = "returned"]
                     @@ [recent_trades |-> RecentTrades(rm.trade_history)]]
  /\ UNCHANGED <<rm, now, ret, equity_log, reset_log, close_log, engine>>

NextStatus ==
  \/ DoRegisterPosition
  \/ DoClosePosition
  \/ StatusGetMetrics
  \/ StatusIterPositions
  \/ StatusCollectPositions
  \/ StatusReadTrades

SpecStatus == Init /\ [][NextStatus]_vars

\* ---------- SpecRun: run() from the constructed engine to its return code
\* how initialize() can go: every step succeeds, test_connection() returns
\* False, or a step raises
InitializeOutcomes == {"ok", "connection_failed", "raised"}
\* the USDT balance get_balances reports to initialize(): no USDT entry, 1200
InitialBalances == {None, Some(1200)}

InitializeReturns_ConnectionUntested(outcome) == outcome # "raised"

\* initialize(): True after the last step, False from `if not
\* self.exchange.test_connection()' and from the except block
InitializeReturns(outcome) == outcome = "ok"

\* OracleTradingEngine(config), before run(): the manager initialize() will
\* construct is held in rm from the start (nothing reads it before)
InitRun ==
  /\ now = 0
  /\ rm = NewRiskManager(0)
  /\ ret = NoRet
  /\ equity_log = [seen |-> FALSE, max |-> 0, last |-> 0]
  /\ reset_log = << >>
  /\ callers = [c \in Callers |-> IdleCaller]
  /\ close_log = << >>
  /\ engine = [NewEngine EXCEPT !.pc = "created", !.healthy = FALSE,
                                !.running = FALSE, !.initialized = "pending"]

\* run() up to _main_loop: initialize(), `return 1' if it returned False (before
\* the try / finally: shutdown() is not called), else _running = True
RunInitialize ==
  /\ engine.pc = "created"
  /\ \E outcome \in InitializeOutcomes, balance \in InitialBalances :
       LET fed == outcome = "ok" /\ IsSome(balance)
       IN /\ rm' = IF fed THEN UpdateEquity(rm, Value(balance), now) ELSE rm
          /\ equity_log' = IF fed
                           THEN [seen |-> TRUE, max |-> Value(balance),
                                 last |-> Value(balance)]
                           ELSE equity_log
          /\ engine' =
               IF InitializeReturns(outcome)
               THEN [engine EXCEPT !.initialized = outcome, !.healthy = TRUE,
                                   !.running = TRUE, !.pc = "loop"]
               ELSE [engine EXCEPT !.initialized = outcome, !.pc = "stopped",
                                   !.exit_code = Some(1)]
  /\ UNCHANGED <<now, ret, reset_log, callers, close_log>>

\* run() after _main_loop returned: finally shutdown() (_running = False,
\* _healthy = False, _close_all_positions("Shutdown") if
\* config.trading.close_on_shutdown), then return 0
RunShutdown ==
  /\ engine.pc = "exited"
  /\ \E close_on_shutdown \in BOOLEAN :
       LET closing == IF close_on_shutdown THEN CloseAllPositions(rm)
                      ELSE [rm |-> rm, orders |-> {}]
       IN /\ rm' = closing.rm
          /\ engine' = [engine EXCEPT !.running = FALSE, !.healthy = FALSE,
                                      !.shutdown_orders = closing.orders,
                                      !.pc = "stopped", !.exit_code = Some(0)]
  /\ UNCHANGED <<now, ret, equity_log, reset_log, callers, close_log>>

NextRun ==
  \/ RunInitialize
  \/ EngineUpdateCandle
  \/ TickStart
  \/ ProcessNext
  \/ LoopBackoff
  \/ SignalShutdown
  \/ LoopExit
  \/ RunShutdown

SpecRun == InitRun /\ [][NextRun]_vars

\* the main thread keeps running: each of its steps is taken once it can be
\* (candles and the shutdown signal come from outside and need not come)
SpecRunLive ==
  /\ SpecRun
  /\ WF_vars(RunInitialize) /\ WF_vars(TickStart) /\ WF_vars(ProcessNext)
  /\ WF_vars(LoopBackoff) /\ WF_vars(LoopExit) /\ WF_vars(RunShutdown)

\* ---------- SpecRunAlone: run() with no outside caller of update_candle
NextRunAlone ==
  \/ RunInitialize
  \/ TickStart
  \/ ProcessNext
  \/ LoopBackoff
  \/ SignalShutdown
  \/ LoopExit
  \/ RunShutdown

SpecRunAlone == InitRun /\ [][NextRunAlone]_vars

\* ------- SpecCandles: update_candle on empty, nearly full and full buffers
CandlePrefills == {0, SlowSma - 1, BufferCapacity - 1, BufferCapacity}
CandleShapes == {"rising", "falling", "zigzag"}
CandleMoves == {-1, 0, 1}
FirstClose == 200

\* the close of the k-th candle of a series of the given shape
ShapeClose(shape, k) ==
  IF shape = "rising" THEN FirstClose + k
  ELSE IF shape = "falling" THEN FirstClose - k
  ELSE FirstClose + (k % 2)

\* update_candle(symbol, candle) on the strategy's part of the engine
StrategyUpdateCandle(eng, symbol, candle) ==
  LET buffer == KeepLastCandles(Append(eng.candle_buffer[symbol], candle), BufferCapacity)
  IN [eng EXCEPT !.candle_buffer[symbol] = buffer,
                 !.indicators[symbol] = CalculateIndicators(buffer, @),
                 !.candle_log[symbol] = Append(@, candle)]

\* the strategy after n update_candle calls for one symbol (n <= 100 leaves the
\* buffer untrimmed, and each call recomputes the snapshot from the buffer)
Ingested(eng, symbol, shape, n) ==
  LET buffer == [k \in 1..n |-> Candle(k, ShapeClose(shape, k))]
  IN [eng EXCEPT !.candle_buffer[symbol] = buffer,
                 !.indicators[symbol] = CalculateIndicators(buffer, None),
                 !.candle_log[symbol] = buffer]

InitCandles ==
  /\ now = 0
  /\ rm = NewRiskManager(0)
  /\ ret = NoRet
  /\ equity_log = [seen |-> FALSE, max |-> 0, last |-> 0]
  /\ reset_log = << >>
  /\ callers = [c \in Callers |-> IdleCaller]
  /\ close_log = << >>
  /\ \E n \in CandlePrefills, shape \in CandleShapes :
       engine = Ingested(NewEngine, "BTCUSDT", shape, n)

CandlesIngested(symbol) == Len(engine.candle_log[symbol])

\* each prefilled buffer takes MaxCandles more candles (the one prefilled to
\* one below the capacity takes one more, through the full one's range)
CandlesLeft ==
  \E n \in CandlePrefills :
     LET total == CandlesIngested("BTCUSDT") + CandlesIngested("ETHUSDT")
     IN n <= total /\ total < n + MaxCandles

CallUpdateCandle(symbol, candle) ==
  /\ engine' = StrategyUpdateCandle(engine, symbol, candle)
  /\ ret' = [op |-> "update_candle", symbol |-> symbol, candle |-> candle]
  /\ UNCHANGED <<rm, now, equity_log, reset_log, callers, close_log>>

\* the next candle of a symbol closes at, one above or one below the last close
CandleArrives ==
  /\ CandlesLeft
  /\ \E symbol \in Symbols, move \in CandleMoves :
       LET log == engine.candle_log[symbol]
           last == IF log = << >> THEN FirstClose ELSE log[Len(log)].close
       IN CallUpdateCandle(symbol, Candle(Len(log) + 1, last + move))

CandleQuery == \E symbol \in Symbols, cp \in SignalSides : CallGenerateSignal(symbol, cp)

NextCandles ==
  \/ CandleArrives
  \/ CandleQuery

SpecCandles == InitCandles /\ [][NextCandles]_vars

\* ------------- SpecSizing: calculate_position_size on balances and prices
SizingBalances == {10, 70, 100, 700, 900, 960, 1200, 2100, 5000, 10000, 33333, 100000}
SizingPrices == {1, 7, 50, 93, 100, 107, 350, 2000, 30000, 65000}

CallCalculatePositionSize(balance, entry_price) ==
  /\ ret' = [op |-> "calculate_position_size", balance |-> balance,
             entry_price |-> entry_price,
             size |-> CalculatePositionSize(balance, entry_price)]
  /\ UNCHANGED <<rm, now, equity_log, reset_log, callers, close_log, engine>>

DoCalculatePositionSize ==
  \E balance \in SizingBalances, entry_price \in SizingPrices :
     CallCalculatePositionSize(balance, entry_price)

NextSizing == DoCalculatePositionSize

SpecSizing == Init /\ [][NextSizing]_vars

\* ------------------------------------------------------------ claims
Open == DOMAIN rm.positions
Checked == ret.op = "check_trade_allowed"
Sized == ret.op = "get_adjusted_size"
\* the cooldown of rule 3 is running at `now'
CooldownActive ==
  /\ rm.consecutive_losses >= 3
  /\ IsSome(rm.last_loss_time)
  /\ now < Value(rm.last_loss_time) + CoolDownAfterLoss
\* current_drawdown >= 0.7 * max_drawdown = 0.175, as 1000 * num >= 175 * den
WarningZone == 1000 * rm.current_drawdown.num >= 175 * rm.current_drawdown.den
\* current_drawdown >= max_drawdown = 0.25, as 4 * num >= den
BreakerZone == 4 * rm.current_drawdown.num >= rm.current_drawdown.den

\* C1: the registry holds at most one Position per symbol, and a step that
\* leaves a symbol open leaves its Position as it was: register_position on an
\* open symbol is a no-op.
C1_RegisterOnOpenSymbolIsNoOp ==
  /\ [](\A s \in Open : s \in Symbols /\ rm.positions[s].symbol = s)
  /\ [][\A s \in Open \cap DOMAIN rm'.positions :
          rm'.positions[s] = rm.positions[s]]_vars

\* C2: with two threads running the entry sequence on one manager, the registry
\* never holds more than max_concurrent_trades positions and no registered
\* position is replaced.
C2_ConcurrentEntriesKeepTheLimit ==
  /\ [](Cardinality(Open) <= MaxConcurrentTrades)
  /\ [][\A s \in Open \cap DOMAIN rm'.positions :
          rm'.positions[s] = rm.positions[s]]_vars

\* C3: whenever current_drawdown >= max_drawdown, check_trade_allowed returns
\* CLOSE_ALL, whatever the daily pnl, the loss streak, the cooldown, the number of
\* open positions and the symbol asked about.
C3_BreakerYieldsCloseAll ==
  (Checked /\ BreakerZone) => ret.action = "close_all"

\* C3's case: the breaker trips while a cooldown is running, the daily loss limit
\* is reached and the registry is full with the symbol itself open.
C3_Witness ==
  /\ Checked /\ BreakerZone /\ CooldownActive
  /\ rm.daily_pnl < 0 /\ -rm.daily_pnl * 10 >= rm.peak_equity
  /\ ret.symbol \in Open
  /\ ret.action = "close_all"

\* the decision the seven rules of C4 give for a symbol, first match first
FirstMatchingRule(symbol) ==
  IF BreakerZone THEN "close_all"
  ELSE IF rm.daily_pnl < 0 /\ Abs(rm.daily_pnl) * 10 >= rm.peak_equity THEN "block"
  ELSE IF CooldownActive THEN "block"
  ELSE IF Cardinality(Open) >= MaxConcurrentTrades THEN "block"
  ELSE IF symbol \in Open THEN "block"
  ELSE IF WarningZone THEN "reduce_size"
  ELSE "allow"

\* C4: for every risk state and symbol, check_trade_allowed returns the decision
\* of the first matching rule among (1) breaker, (2) daily loss, (3) cooldown,
\* (4) registry full, (5) symbol open, (6) warning zone, (7) allow.
C4_FirstMatchingRuleDecides ==
  Checked => ret.action = FirstMatchingRule(ret.symbol)

\* C5: no step lowers peak_equity.
C5_PeakNeverDecreases ==
  [][rm'.peak_equity >= rm.peak_equity]_vars

\* C5's case: an equity below the peak was fed and the peak stayed.
C5_Witness ==
  /\ equity_log.seen /\ equity_log.last < equity_log.max
  /\ rm.peak_equity = 1200

\* C6, as claimed: 0 <= current_drawdown < 1 in every reachable state.
C6_DrawdownBelowOne ==
  /\ 0 <= rm.current_drawdown.num
  /\ rm.current_drawdown.num < rm.current_drawdown.den

\* C6, amended: 0 <= current_drawdown <= 1 in every reachable state, for
\* equities that are never negative, and it is 1 exactly when the last
\* equity fed was 0 under a positive peak.
C6_DrawdownWithinUnitInterval ==
  /\ 0 <= rm.current_drawdown.num
  /\ rm.current_drawdown.num <= rm.current_drawdown.den
  /\ rm.current_drawdown.num = rm.current_drawdown.den
       <=> (equity_log.seen /\ equity_log.last = 0 /\ rm.peak_equity > 0)

\* C6's case: the equity fell to 0 under a positive peak: the drawdown is 1.
C6_Witness ==
  /\ rm.peak_equity > 0 /\ equity_log.last = 0
  /\ rm.current_drawdown.num = rm.current_drawdown.den

\* C7: after every update_equity(e), peak_equity is the largest equity fed so
\* far and current_drawdown is (peak_equity - e) / peak_equity for the latest e;
\* feeding 1000, 1200, 900 ends with peak 1200 and drawdown 0.25.
C7_PeakIsMaxAndDrawdownFollows ==
  /\ equity_log.seen =>
       /\ rm.peak_equity = equity_log.max
       /\ rm.peak_equity > 0 =>
            rm.current_drawdown.num * rm.peak_equity
              = (rm.peak_equity - equity_log.last) * rm.current_drawdown.den
  /\ LET r == FeedEquities(NewRiskManager(0), <<1000, 1200, 900>>, 0)
     IN r.peak_equity = 1200 /\ 4 * r.current_drawdown.num = r.current_drawdown.den

\* C7's case: 900 fed under a peak of 1200: drawdown 0.25.
C7_Witness ==
  /\ equity_log.seen /\ equity_log.max = 1200 /\ equity_log.last = 900
  /\ rm.peak_equity = 1200
  /\ 4 * rm.current_drawdown.num = rm.current_drawdown.den

\* what the daily fields of manager r show about a call made now: a reset to
\* zero with the date stored if the date passed the stored one, no change otherwise
DailyFieldsAfterCall(r) ==
  IF Today(now) > rm.last_reset
  THEN r.daily_pnl = 0 /\ r.daily_trade_count = 0 /\ r.last_reset = Today(now)
  ELSE /\ r.daily_pnl = rm.daily_pnl
       /\ r.daily_trade_count = rm.daily_trade_count
       /\ r.last_reset = rm.last_reset

\* C8: in every reachable state, a call of update_equity, check_trade_allowed or
\* get_metrics resets daily_pnl and daily_trade_count to zero and stores the date
\* if the date passed the stored last-reset date, and leaves them alone if it is
\* the stored date; the dates of the resets made so far strictly increase (none
\* is reset twice) and the last of them is the stored date; no step that starts
\* on the stored date resets, and nothing but a reset lowers the trade count.
C8_DailyResetOncePerDay ==
  /\ [](/\ \A e \in Equities : DailyFieldsAfterCall(UpdateEquity(rm, e, now))
        /\ \A s \in Symbols : DailyFieldsAfterCall(CheckTradeAllowed(rm, s, now).rm)
        /\ DailyFieldsAfterCall(ResetDailyMetrics(rm, now))
        /\ \A i, j \in 1..Len(reset_log) : i < j => reset_log[i] < reset_log[j]
        /\ rm.last_reset = IF reset_log = << >> THEN 0 ELSE reset_log[Len(reset_log)]
        /\ rm.last_reset <= Today(now))
  /\ [][/\ Today(now) = rm.last_reset => reset_log' = reset_log
        /\ reset_log' # reset_log =>
             /\ reset_log' = Append(reset_log, Today(now))
             /\ rm'.daily_pnl = 0 /\ rm'.daily_trade_count = 0
        /\ reset_log' = reset_log =>
             /\ rm'.last_reset = rm.last_reset
             /\ rm'.daily_trade_count >= rm.daily_trade_count]_vars

\* C8's case: the counters were reset on day 1, a position was registered after
\* that, and a later check_trade_allowed on day 1 left the count at 1.
C8_Witness ==
  /\ reset_log = <<1>> /\ Today(now) = 1
  /\ Checked
  /\ rm.daily_trade_count = 1

\* C9: in the warning zone get_adjusted_size(base) is exactly base / 2, for
\* every consecutive_losses.
C9_WarningZoneHalves ==
  (Sized /\ WarningZone) => 2 * ret.size = ret.base

\* C9's case: the warning zone with a loss streak that has its own factor.
C9_Witness ==
  /\ Sized /\ WarningZone /\ rm.consecutive_losses >= 2
  /\ 2 * ret.size = ret.base

\* C10: outside the warning zone get_adjusted_size(base) is base for fewer than
\* 2 consecutive losses, and base * max(0.3, 1 - 0.15 * losses) from 2 on:
\* 0.70 at 2, 0.55 at 3, 0.40 at 4 and the floor 0.30 from 5 on.
C10_LossStreakScaling ==
  (Sized /\ ~WarningZone) =>
     100 * ret.size =
        ret.base * (CASE rm.consecutive_losses < 2 -> 100
                      [] rm.consecutive_losses = 2 -> 70
                      [] rm.consecutive_losses = 3 -> 55
                      [] rm.consecutive_losses = 4 -> 40
                      [] OTHER -> 30)

\* C10's case: six consecutive losses, outside the warning zone: the floor.
C10_Witness ==
  /\ Sized /\ ~WarningZone /\ rm.consecutive_losses = 6
  /\ 100 * ret.size = 30 * ret.base

\* the last call was close_position, on a symbol that was open / was not open
ClosedOpen == ret.op = "close_position" /\ ret.found
ClosedAbsent == ret.op = "close_position" /\ ~ret.found

\* C11: a close_position on an open symbol with pnl <= 0 (0 included) adds one
\* to consecutive_losses and stamps last_loss_time with the time of the call;
\* one with pnl > 0 sets consecutive_losses to zero.
C11_NonPositivePnlCountsAsLoss ==
  [][(ret'.op = "close_position" /\ ret'.found) =>
       /\ ret'.pnl <= 0 =>
            /\ rm'.consecutive_losses = rm.consecutive_losses + 1
            /\ rm'.last_loss_time = Some(now)
       /\ ret'.pnl > 0 => rm'.consecutive_losses = 0]_vars

\* C12: a close_position on an open symbol removes that symbol from the
\* registry and nothing else, leaves every other position as it was, adds
\* exactly pnl to daily_pnl and appends exactly one record, the one of this
\* close, to the history (dropping the oldest of a full history); every
\* registry entry is an open position, and a symbol that is not open, closed
\* before or not, can be registered.
C12_CloseRemovesAndAccounts ==
  /\ [][(ret'.op = "close_position" /\ ret'.found) =>
          LET s == ret'.symbol
              rec == close_log'[Len(close_log')]
          IN /\ s \in Open
             /\ DOMAIN rm'.positions = Open \ {s}
             /\ \A o \in Open \ {s} : rm'.positions[o] = rm.positions[o]
             /\ rm'.daily_pnl = rm.daily_pnl + ret'.pnl
             /\ close_log' = Append(close_log, rec)
             /\ rec.symbol = s /\ rec.pnl = ret'.pnl
             /\ rec.side = rm.positions[s].side /\ rec.size = rm.positions[s].size
             /\ rec.entry_price = rm.positions[s].entry_price
             /\ rm'.trade_history =
                  IF Len(rm.trade_history) < 100
                  THEN Append(rm.trade_history, rec)
                  ELSE Append(Tail(rm.trade_history), rec)]_vars
  /\ [](/\ \A s \in Open : rm.positions[s].symbol = s
        /\ \A s \in Symbols \ Open : \A sd \in Sides :
             LET p == NewPosition(s, sd, BaseSize)
                 r == RegisterPosition(rm, p)
             IN /\ DOMAIN r.positions = Open \cup {s}
                /\ r.positions[s] = p)

\* C12's case: a symbol was closed, opened again and closed again, while the
\* other symbol stayed open.
C12_Witness ==
  /\ ClosedOpen /\ Open # {} /\ ret.symbol \notin Open
  /\ Len(close_log) >= 2
  /\ close_log[Len(close_log) - 1].symbol = ret.symbol
  /\ close_log[Len(close_log)].symbol = ret.symbol

\* C13: the trade history is the last min(100, n) of the n closes made so far,
\* in their order: never more than 100 records, the oldest evicted first.
C13_HistoryIsLastHundred ==
  LET n == Len(close_log)
      m == IF n < 100 THEN n ELSE 100
  IN /\ Len(rm.trade_history) = m
     /\ \A i \in 1..m : rm.trade_history[i] = close_log[n - m + i]

\* C13's case: 102 closes: the history holds closes 3..102.
C13_Witness ==
  /\ Len(close_log) = 102 /\ Len(rm.trade_history) = 100
  /\ rm.trade_history[1] = close_log[3] /\ rm.trade_history[1] # close_log[1]
  /\ rm.trade_history[100] = close_log[102]

\* C14: close_position for a symbol that is not open changes nothing: the
\* registry, daily_pnl, consecutive_losses, last_loss_time, daily_trade_count
\* and the trade history stay as they were, and nothing is raised.
C14_CloseOfAbsentSymbolIsIgnored ==
  /\ [](\A s \in Symbols \ Open : \A c \in CloseInputs :
          ClosePosition(rm, s, c[1], c[2], now) = rm)
  /\ [][(ret'.op = "close_position" /\ ~ret'.found) =>
          (rm' = rm /\ close_log' = close_log)]_vars

\* C14's case: a close of a symbol that is not open, with the other symbol
\* open, a loss streak running and a history to corrupt.
C14_Witness ==
  /\ ClosedAbsent /\ Open # {}
  /\ rm.consecutive_losses > 0 /\ rm.trade_history # << >>
  /\ rm.daily_pnl # 0

\* a step of the orchestrator that processes the next symbol of its iteration
\* (the only step there is while symbols are left and no shutdown is signalled)
Processing ==
  /\ engine.todo # << >>
  /\ ~engine.shutdown /\ ~engine'.shutdown
\* the orders among a set that are for a given symbol
OrdersFor(orders, symbol) == {o \in orders : o.symbol = symbol}

\* C15: when the admission check of a _process_signal call returns CLOSE_ALL,
\* that call places exactly one closing order (opposite side, full size) for
\* every position in the registry and no entry order; and once an iteration has
\* seen CLOSE_ALL, the calls for its remaining symbols run no admission check
\* and place no order.
C15_CloseAllEndsEntriesForTick ==
  [][Processing =>
       LET l == engine'.last
       IN /\ l.admission = "close_all" =>
               /\ l.orders = {[symbol |-> s,
                               side |-> IF rm.positions[s].side = "buy"
                                        THEN "sell" ELSE "buy",
                               size |-> rm.positions[s].size] : s \in Open}
               /\ l.symbol \notin Open
               /\ rm'.positions = rm.positions
          /\ engine.closed_all => (l.admission = "none" /\ l.orders = {})]_vars

\* C16: in a _process_signal call that takes the entry path, an order for the
\* symbol is placed only if check_trade_allowed returned ALLOW or REDUCE_SIZE in
\* that call; BLOCK places no order and registers nothing; the registry or
\* daily_trade_count change only if the entry order was filled; if place_order
\* returned nothing or raised, both are unchanged.
C16_OrderAfterAdmissionRegisterAfterFill ==
  [][(Processing /\ engine'.last.signal \in {"long", "short"}) =>
       LET l == engine'.last
           admitted == l.admission \in {"allow", "reduce_size"}
           same == /\ rm'.positions = rm.positions
                   /\ rm'.daily_trade_count = rm.daily_trade_count
       IN /\ OrdersFor(l.orders, l.symbol) # {} => admitted
          /\ l.admission = "block" => (l.orders = {} /\ same)
          /\ ~same => (admitted /\ l.fill = "filled"
                       /\ OrdersFor(l.orders, l.symbol) # {}
                       /\ DOMAIN rm'.positions = Open \cup {l.symbol}
                       /\ rm'.daily_trade_count = rm.daily_trade_count + 1)
          /\ l.fill \in {"none", "raised"} => same
          /\ (admitted /\ l.fill = "filled") => l.symbol \in DOMAIN rm'.positions]_vars

\* C16's case: admission allowed the entry, the order was placed, place_order
\* returned nothing or raised, and the symbol is not registered.
C16_Witness ==
  /\ engine.last.op = "process_signal" /\ engine.last.admission = "allow"
  /\ engine.last.fill \in {"none", "raised"}
  /\ engine.last.orders # {}
  /\ engine.last.symbol \notin Open /\ rm.daily_trade_count = 0

\* C17: when admission returns REDUCE_SIZE, the one order placed is the entry
\* order with the size get_adjusted_size gives for the strategy's size (half of
\* it), and if the order is filled the position is registered with that size, at
\* the signal's price and side, as for ALLOW.
C17_ReducedSizeIsOrderedAndRegistered ==
  [][(Processing /\ engine'.last.admission = "reduce_size") =>
       LET l == engine'.last
           s == l.symbol
           side == IF l.signal = "long" THEN "buy" ELSE "sell"
           shrunk == GetAdjustedSize(rm, l.size)
       IN /\ 2 * shrunk = l.size
          /\ l.orders = {[symbol |-> s, side |-> side, size |-> shrunk]}
          /\ l.fill = "filled" =>
               /\ DOMAIN rm'.positions = Open \cup {s}
               /\ rm'.positions[s].size = shrunk
               /\ rm'.positions[s].side = side
               /\ rm'.positions[s].entry_price = l.price
               /\ rm'.daily_trade_count = rm.daily_trade_count + 1
          /\ l.fill # "filled" => rm'.positions = rm.positions]_vars

\* C17's case: the strategy sized 6 units, admission said REDUCE_SIZE, 3 units
\* were ordered, the order was filled and 3 units are registered.
C17_Witness ==
  /\ engine.last.op = "process_signal" /\ engine.last.admission = "reduce_size"
  /\ engine.last.fill = "filled" /\ engine.last.size = 600
  /\ engine.last.symbol \in Open
  /\ rm.positions[engine.last.symbol].size = 300
  /\ \E o \in engine.last.orders : o.size = 300

C19_OpenedPositionIsExited ==
  [][(Processing /\ Head(engine.todo) \in Open
        /\ IsSome(engine.indicators[Head(engine.todo)])) =>
       LET s == Head(engine.todo)
           rsi == Value(engine.indicators[s]).rsi
           l == engine'.last
           exited == /\ OrdersFor(l.orders, s) # {}
                     /\ l.fill = "filled" => s \notin DOMAIN rm'.positions
       IN /\ (rm.positions[s].side = "buy" /\ AtLeast(rsi, RsiExit)) =>
               (l.signal = "exit_long" /\ exited)
          /\ (rm.positions[s].side = "sell" /\ AtMost(rsi, 100 - RsiExit)) =>
               (l.signal = "exit_short" /\ exited)]_vars

\* the last call was generate_signal
Signalled == ret.op = "generate_signal"

\* C20: generate_signal called with a position open never returns long or
\* short: with a long position it returns exit_long or hold, with a short one
\* exit_short or hold (with the registry's "buy" / "sell": hold), whatever the
\* snapshot.
C20_ExitFirst ==
  (Signalled /\ IsSome(ret.position)) =>
     /\ ret.sig.signal \notin {"long", "short"}
     /\ ret.position = <<"long">> => ret.sig.signal \in {"exit_long", "hold"}
     /\ ret.position = <<"short">> => ret.sig.signal \in {"exit_short", "hold"}
     /\ ret.position \in {<<"buy">>, <<"sell">>} => ret.sig.signal = "hold"

\* C20's case: a long position is open and the snapshot is a long crossing
\* (29 -> 45, bullish), which would be an entry with no position: hold.
C20_Witness ==
  /\ Signalled /\ ret.position = <<"long">>
  /\ engine.indicators[ret.symbol] = <<Snapshot(Whole(29), Whole(45), "bullish", 100)>>
  /\ ret.sig.signal = "hold"

\* clamp(num / den, 0, 1) for den > 0
Clamp01(num, den) ==
  IF num <= 0 THEN Whole(0) ELSE IF num >= den THEN Whole(1) ELSE [num |-> num, den |-> den]

\* generate_signal was called with no position open on a symbol with a snapshot
SignalledFlat ==
  Signalled /\ ret.position = None /\ IsSome(engine.indicators[ret.symbol])

\* previous RSI < entry_low <= RSI <= entry_high and the trend is bullish
LongCrossing(ind) ==
  /\ ind.rsi_prev.num < RsiEntryLow * ind.rsi_prev.den
  /\ RsiEntryLow * ind.rsi.den <= ind.rsi.num
  /\ ind.rsi.num <= RsiEntryHigh * ind.rsi.den
  /\ ind.trend = "bullish"

\* previous RSI > 100 - entry_low >= RSI >= 100 - entry_high and the trend is bearish
ShortCrossing(ind) ==
  /\ ind.rsi_prev.num > (100 - RsiEntryLow) * ind.rsi_prev.den
  /\ (100 - RsiEntryLow) * ind.rsi.den >= ind.rsi.num
  /\ ind.rsi.num >= (100 - RsiEntryHigh) * ind.rsi.den
  /\ ind.trend = "bearish"

\* C21: with no position open generate_signal returns long exactly when
\* previous RSI < entry_low <= RSI <= entry_high and the trend is bullish, and
\* the long signal's confidence is clamp((entry_high - RSI) / (entry_high -
\* entry_low), 0, 1); RSI 28 -> 45 under a bullish trend gives long with 0.5.
C21_LongEntry ==
  /\ SignalledFlat =>
       LET ind == Value(engine.indicators[ret.symbol])
       IN /\ ret.sig.signal = "long" <=> LongCrossing(ind)
          /\ ret.sig.signal = "long" =>
               SameValue(ret.sig.confidence,
                         Clamp01(RsiEntryHigh * ind.rsi.den - ind.rsi.num,
                                 (RsiEntryHigh - RsiEntryLow) * ind.rsi.den))
  /\ LET sig == GenerateSignal(Some(Snapshot(Whole(28), Whole(45), "bullish", 100)), None)
     IN sig.signal = "long" /\ SameValue(sig.confidence, [num |-> 1, den |-> 2])

\* C21's case: no position, RSI 28 -> 45, bullish: long with confidence 1/2.
C21_Witness ==
  /\ SignalledFlat
  /\ engine.indicators[ret.symbol] = Some(Snapshot(Whole(28), Whole(45), "bullish", 100))
  /\ ret.sig.signal = "long"
  /\ SameValue(ret.sig.confidence, [num |-> 1, den |-> 2])

\* C22: with no position open generate_signal returns short exactly when
\* previous RSI > 100 - entry_low >= RSI >= 100 - entry_high and the trend is
\* bearish; the long and the short conditions never hold together, the result
\* is one of long, short, hold, and it is hold whenever neither condition
\* holds (and whenever the symbol has no snapshot).
C22_ShortEntryElseHold ==
  (Signalled /\ ret.position = None) =>
     IF IsSome(engine.indicators[ret.symbol])
     THEN LET ind == Value(engine.indicators[ret.symbol])
          IN /\ ret.sig.signal = "short" <=> ShortCrossing(ind)
             /\ ~(LongCrossing(ind) /\ ShortCrossing(ind))
             /\ ret.sig.signal \in {"long", "short", "hold"}
             /\ (~LongCrossing(ind) /\ ~ShortCrossing(ind)) =>
                  (ret.sig.signal = "hold" /\ ret.sig.confidence.num = 0)
     ELSE ret.sig.signal = "hold" /\ ret.sig.confidence.num = 0

\* C22's case: no position, RSI 72 -> 55, bearish: short.
C22_Witness ==
  /\ SignalledFlat
  /\ engine.indicators[ret.symbol] = Some(Snapshot(Whole(72), Whole(55), "bearish", 100))
  /\ ret.sig.signal = "short"

\* C23: with a long position generate_signal returns exit_long exactly when
\* RSI >= exit_threshold, with confidence clamp((RSI - exit_threshold) / 10, 0, 1);
\* with a short position it returns exit_short exactly when RSI <= 100 -
\* exit_threshold, with confidence clamp(((100 - exit_threshold) - RSI) / 10, 0, 1).
C23_ExitSignals ==
  (Signalled /\ IsSome(engine.indicators[ret.symbol])) =>
     LET rsi == Value(engine.indicators[ret.symbol]).rsi
     IN /\ ret.position = Some("long") =>
             /\ ret.sig.signal = "exit_long" <=> rsi.num >= RsiExit * rsi.den
             /\ ret.sig.signal = "exit_long" =>
                  SameValue(ret.sig.confidence,
                            Clamp01(rsi.num - RsiExit * rsi.den, 10 * rsi.den))
        /\ ret.position = Some("short") =>
             /\ ret.sig.signal = "exit_short" <=> rsi.num <= (100 - RsiExit) * rsi.den
             /\ ret.sig.signal = "exit_short" =>
                  SameValue(ret.sig.confidence,
                            Clamp01((100 - RsiExit) * rsi.den - rsi.num, 10 * rsi.den))

\* C23's case: a long position and RSI exactly 80: exit_long with confidence 0.
C23_Witness ==
  /\ Signalled /\ ret.position = Some("long")
  /\ IsSome(engine.indicators[ret.symbol])
  /\ Value(engine.indicators[ret.symbol]).rsi = Whole(80)
  /\ ret.sig.signal = "exit_long" /\ ret.sig.confidence.num = 0

\* C24: every signal generate_signal returns, for every snapshot (or none)
\* and every current side, has a confidence in [0, 1], and every hold has
\* confidence exactly 0.
C24_ConfidenceInUnitInterval ==
  Signalled =>
     /\ ret.sig.confidence.den > 0
     /\ 0 <= ret.sig.confidence.num
     /\ ret.sig.confidence.num <= ret.sig.confidence.den
     /\ ret.sig.signal = "hold" => ret.sig.confidence.num = 0

\* C24's case: a short position and RSI 0, where the unclamped quotient
\* ((100 - 80) - 0) / 10 is 2: exit_short with confidence 1.
C24_Witness ==
  /\ Signalled /\ ret.position = Some("short")
  /\ IsSome(engine.indicators[ret.symbol])
  /\ Value(engine.indicators[ret.symbol]).rsi = Whole(0)
  /\ ret.sig.signal = "exit_short"
  /\ ret.sig.confidence = [num |-> 1, den |-> 1]

\* the last n elements of a sequence, all of it if it has fewer
LastOf(log, n) ==
  LET k == IF Len(log) < n THEN Len(log) ELSE n
  IN [i \in 1..k |-> log[Len(log) - k + i]]

\* C25: after any sequence of update_candle calls every symbol's buffer holds
\* at most 100 candles, and they are the last ones ingested for that symbol,
\* in arrival order; an update_candle call for one symbol leaves every other
\* symbol's buffer as it was.
C25_BufferIsLastHundred ==
  /\ [](\A s \in Symbols :
          /\ Len(engine.candle_buffer[s]) <= 100
          /\ engine.candle_buffer[s] = LastOf(engine.candle_log[s], 100))
  /\ [][ret'.op = "update_candle" =>
          \A s \in Symbols \ {ret'.symbol} :
             engine'.candle_buffer[s] = engine.candle_buffer[s]]_vars

\* C25's case: a 101st candle arrived for BTCUSDT and the first one is gone,
\* while ETHUSDT holds the one candle it was given.
C25_Witness ==
  /\ Len(engine.candle_log["BTCUSDT"]) = 101
  /\ Len(engine.candle_buffer["BTCUSDT"]) = 100
  /\ engine.candle_buffer["BTCUSDT"][1] = engine.candle_log["BTCUSDT"][2]
  /\ engine.candle_buffer["BTCUSDT"][100] = engine.candle_log["BTCUSDT"][101]
  /\ Len(engine.candle_buffer["ETHUSDT"]) = 1

\* C26: a symbol whose buffer holds fewer than slow_window candles has no
\* snapshot, and generate_signal on a symbol without a snapshot returns hold
\* with confidence 0 (and price 0) for every current side.
C26_NoSnapshotMeansHold ==
  /\ \A s \in Symbols :
        Len(engine.candle_buffer[s]) < SlowSma => engine.indicators[s] = None
  /\ (Signalled /\ engine.indicators[ret.symbol] = None) =>
        /\ ret.sig.signal = "hold"
        /\ ret.sig.confidence.num = 0
        /\ ret.sig.price = 0

\* C26's case: 49 candles in the buffer, a long position: hold; and the 50th
\* candle is what brings the snapshot.
C26_Witness ==
  /\ Signalled /\ ret.position = Some("long")
  /\ Len(engine.candle_buffer[ret.symbol]) = SlowSma - 1
  /\ engine.indicators[ret.symbol] = None
  /\ ret.sig.signal = "hold"

\* C27: for every symbol with a snapshot, if over the last rsi_period candles
\* the average loss is 0 and the average gain is positive, the RSI is 100, and
\* if the average gain is 0 and the average loss is positive, the RSI is 0.
C27_RsiOfMonotoneSeries ==
  \A s \in Symbols :
     IsSome(engine.indicators[s]) =>
        LET buffer == engine.candle_buffer[s]
            closes == [j \in 1..Len(buffer) |-> buffer[j].close]
            gain == RollingSum(Gains(closes), Len(closes), RsiPeriod)
            loss == RollingSum(Losses(closes), Len(closes), RsiPeriod)
            rsi == Value(engine.indicators[s]).rsi
        IN /\ (loss = 0 /\ gain > 0) => rsi.num = 100 * rsi.den
           /\ (gain = 0 /\ loss > 0) => rsi.num = 0

\* C28: calculate_position_size(equity, entry_price) is the smaller of
\* (equity * risk_per_trade) / (entry_price * stop_loss) and 0.5 * equity /
\* entry_price (sizes in hundredths of a unit, rounded down), so that size *
\* entry_price never exceeds half of equity.
C28_SizeCappedAtHalfEquity ==
  ret.op = "calculate_position_size" =>
     LET risk_size == (ret.balance * 5 * 100) \div (ret.entry_price * 7)
         cap == (ret.balance * 50) \div ret.entry_price
     IN /\ ret.size = IF risk_size <= cap THEN risk_size ELSE cap
        /\ ret.size * ret.entry_price <= 50 * ret.balance

\* C28's case: equity 1200 at price 100: the risk-based size is 8.57 units,
\* the cap is 6 units, and 6 units are returned (notional 600 = half of 1200).
C28_Witness ==
  /\ ret.op = "calculate_position_size"
  /\ ret.balance = 1200 /\ ret.entry_price = 100
  /\ ret.size = 600

\* the last _process_signal call entered a position from the given signal
EnteredFrom(signal) ==
  /\ engine.last.op = "process_signal" /\ engine.last.signal = signal
  /\ engine.last.fill = "filled"
  /\ engine.last.symbol \in DOMAIN rm.positions

\* C29: the position the orchestrator registers from a long signal has
\* stop_loss = entry * (1 - 0.07) and take_profit = entry * (1 + 0.21); the one
\* it registers from a short signal has stop_loss = entry * (1 + 0.07) and
\* take_profit = entry * (1 - 0.21).
C29_StopAndTargetBySignal ==
  /\ EnteredFrom("long") =>
       LET pos == rm.positions[engine.last.symbol]
       IN /\ pos.stop_loss * 100 = pos.entry_price * (100 - 7)
          /\ pos.take_profit * 100 = pos.entry_price * (100 + 21)
  /\ EnteredFrom("short") =>
       LET pos == rm.positions[engine.last.symbol]
       IN /\ pos.stop_loss * 100 = pos.entry_price * (100 + 7)
          /\ pos.take_profit * 100 = pos.entry_price * (100 - 21)

\* C30: an exception raised in an iteration of the main loop (by get_balances
\* at its top or while a symbol is processed) does not end the loop: the loop
\* is in its handler with health degraded, the handler's only way out is the
\* 10-second sleep after which health is restored and the loop is back at the
\* while, the loop returns only once shutdown is signalled, and from the
\* handler a later iteration starts unless shutdown is signalled.
C30_TickErrorIsSurvived ==
  /\ [](engine.pc = "handler" => (~engine.healthy /\ engine.todo = << >>))
  /\ [][engine.pc = "handler" =>
          \/ engine'.pc = "handler"
          \/ engine'.pc = "resumed" /\ engine'.healthy /\ now' = now + 10]_vars
  /\ [](engine.pc = "exited" => engine.shutdown)
  /\ \A k \in 1..(MaxTicks - 1) :
        (engine.pc = "handler" /\ engine.ticks = k)
           ~> (engine.shutdown \/ engine.ticks = k + 1)

\* C30's case: an iteration is processing its symbols, healthy, after the
\* handler caught an exception of an earlier one.
C30_Witness ==
  /\ engine.loop_errors >= 1
  /\ engine.pc = "loop" /\ engine.todo # << >>
  /\ engine.healthy /\ ~engine.shutdown

\* C31: once the shutdown event is set in a run whose initialize() succeeded,
\* from the main loop on no iteration and no symbol is started any more (the Risk Manager is not
\* touched, the loop leaves without waiting out the 60 seconds, the handler
\* only finishes its 10-second sleep), and run() eventually has performed
\* shutdown (_running and _healthy False) and returned 0; run() returns 0 only
\* this way.
C31_ShutdownEndsTheRun ==
  /\ [][(engine.shutdown /\ engine.pc # "created") =>
          /\ engine'.ticks = engine.ticks
          /\ engine'.last = engine.last
          /\ rm' = rm
          /\ engine'.todo \in {engine.todo, << >>}
          /\ now' = now + (IF engine.pc = "handler" /\ engine'.pc # "handler"
                           THEN 10 ELSE 0)]_vars
  /\ [](engine.exit_code = Some(0) =>
          /\ engine.shutdown /\ engine.pc = "stopped"
          /\ ~engine.running /\ ~engine.healthy /\ engine.todo = << >>)
  /\ (engine.shutdown /\ engine.initialized = "ok")
        ~> (engine.pc = "stopped" /\ engine.exit_code = Some(0))

\* C31's case: run() has returned 0 after the event was set in the middle of
\* an iteration: the first symbol was processed, the second never was.
C31_Witness ==
  /\ engine.pc = "stopped" /\ engine.exit_code = Some(0)
  /\ engine.ticks >= 1
  /\ engine.last.op = "process_signal" /\ engine.last.symbol = "BTCUSDT"
  /\ ~engine.last.raised

\* C32: when initialize() failed (the connection test failed or a step raised)
\* run() has returned 1, and no iteration was started, no symbol processed, no
\* order placed and no position registered.
C32_FailedInitializeEndsTheRun ==
  engine.initialized \in {"connection_failed", "raised"} =>
     /\ engine.pc = "stopped" /\ engine.exit_code = Some(1)
     /\ ~engine.running
     /\ engine.ticks = 0 /\ engine.todo = << >> /\ engine.last = NoCall
     /\ engine.shutdown_orders = {}
     /\ rm.positions = << >> /\ rm.trade_history = << >>

\* C32's case: the connection test failed and run() has returned.
C32_Witness ==
  /\ engine.initialized = "connection_failed"
  /\ engine.pc = "stopped" /\ engine.exit_code = Some(1)

\* C33: in the orchestrator's single-threaded run the registry never holds
\* more positions than max_concurrent_trades.
C33_RegistryWithinLimit ==
  Cardinality(DOMAIN rm.positions) <= MaxConcurrentTrades

\* C33's case: the registry is full (one position, limit 1) and the entry the
\* orchestrator just tried for the other symbol was blocked.
C33_Witness ==
  /\ Cardinality(DOMAIN rm.positions) = MaxConcurrentTrades
  /\ engine.last.op = "process_signal"
  /\ engine.last.signal \in {"long", "short"}
  /\ engine.last.symbol \notin DOMAIN rm.positions
  /\ engine.last.admission = "block" /\ engine.last.orders = {}

\* C34: every check_trade_allowed call, in every state update_equity,
\* register_position and close_position lead to, returns one of the four
\* decisions (and raises nothing).
C34_AdmissionNeverRaises ==
  ret.op = "check_trade_allowed" =>
     ret.action \in {"allow", "block", "reduce_size", "close_all"}

\* C35: an entry admitted with ALLOW places its order, and registers its
\* position, at the full size the strategy computed, whatever the loss streak;
\* an entry admitted with REDUCE_SIZE met the warning zone and places and
\* registers exactly half of that size.
C35_OnlyReduceSizeShrinksTheOrder ==
  (engine.last.op = "execute_entry"
     /\ engine.last.admission \in {"allow", "reduce_size"}) =>
     /\ engine.last.orders # {}
     /\ \A o \in engine.last.orders :
          /\ o.symbol = engine.last.symbol
          /\ engine.last.admission = "allow" => o.size = engine.last.size
          /\ engine.last.admission = "reduce_size" =>
                (2 * o.size = engine.last.size /\ engine.last.warning)
          /\ engine.last.fill = "filled" =>
                rm.positions[o.symbol].size = o.size

\* C35's case: an entry met a manager with a loss streak of two or more
\* outside the warning zone, was admitted with ALLOW, and its order was placed
\* and filled at the strategy's full size.
C35_Witness ==
  /\ engine.last.op = "execute_entry" /\ engine.last.admission = "allow"
  /\ engine.last.losses >= 2 /\ ~engine.last.warning
  /\ engine.last.fill = "filled"
  /\ engine.last.size > 0
  /\ engine.last.orders =
       {Order(engine.last.symbol,
              IF engine.last.signal = "long" THEN "buy" ELSE "sell",
              engine.last.size)}

\* the symbol of every order in the set is registered in r and an entry check
\* for it at time t admits nothing
StillRegisteredAndBlocked(orders, r, t) ==
  \A o \in orders :
     /\ o.symbol \in DOMAIN r.positions
     /\ CheckTradeAllowed(r, o.symbol, t).action \notin {"allow", "reduce_size"}

\* C36: _close_all_positions only places the closing orders.  Where an entry
\* met CLOSE_ALL the registry, consecutive_losses and the trade history are as
\* before the entry (and daily_pnl too, unless the admission check rolled the
\* day over); where shutdown() ran, the Risk Manager is as before; in both,
\* every position an order was placed for is still registered and its symbol
\* is still refused a new entry.
C36_CloseAllLeavesRiskManager ==
  /\ [][(Processing /\ engine'.last.op = "process_signal"
                     /\ engine'.last.admission = "close_all") =>
          /\ engine'.last.orders = CloseAllOrders(rm)
          /\ rm'.positions = rm.positions
          /\ rm'.consecutive_losses = rm.consecutive_losses
          /\ rm'.trade_history = rm.trade_history
          /\ (now \div 86400 <= rm.last_reset => rm'.daily_pnl = rm.daily_pnl)
          /\ StillRegisteredAndBlocked(engine'.last.orders, rm', now')]_vars
  /\ [][(engine.pc = "exited" /\ engine'.pc = "stopped") =>
          /\ engine'.shutdown_orders \in {{}, CloseAllOrders(rm)}
          /\ rm' = rm
          /\ StillRegisteredAndBlocked(engine'.shutdown_orders, rm', now')]_vars

\* C36's case: the last entry of the run met CLOSE_ALL and placed closing
\* orders, shutdown() placed closing orders again, and the position is still
\* in the registry.
C36_Witness ==
  /\ engine.pc = "stopped" /\ engine.shutdown_orders # {}
  /\ engine.last.op = "process_signal" /\ engine.last.admission = "close_all"
  /\ engine.last.orders # {}
  /\ \A o \in engine.shutdown_orders \cup engine.last.orders :
        o.symbol \in DOMAIN rm.positions

\* C37: a check_trade_allowed call, whatever it returns, leaves the registry,
\* peak_equity, current_drawdown, consecutive_losses, last_loss_time and the
\* trade history as they were; when the day has not rolled over since the last
\* reset it leaves daily_pnl and daily_trade_count as they were too (and when
\* it has, it sets both to 0).
C37_AdmissionOnlyResetsTheDay ==
  [][ret'.op = "check_trade_allowed" =>
       /\ rm'.positions = rm.positions
       /\ rm'.peak_equity = rm.peak_equity
       /\ rm'.current_drawdown = rm.current_drawdown
       /\ rm'.consecutive_losses = rm.consecutive_losses
       /\ rm'.last_loss_time = rm.last_loss_time
       /\ rm'.trade_history = rm.trade_history
       /\ IF now \div 86400 > rm.last_reset
          THEN rm'.daily_pnl = 0 /\ rm'.daily_trade_count = 0
          ELSE rm'.daily_pnl = rm.daily_pnl
               /\ rm'.daily_trade_count = rm.daily_trade_count]_vars

\* C37's case: a check on the day of the last reset, on a manager with an open
\* position, a loss streak and today's trades counted, returned BLOCK.
C37_Witness ==
  /\ ret.op = "check_trade_allowed" /\ ret.action = "block"
  /\ now \div 86400 = rm.last_reset
  /\ DOMAIN rm.positions # {}
  /\ rm.daily_trade_count > 0 /\ rm.daily_pnl < 0
  /\ rm.consecutive_losses >= 3 /\ IsSome(rm.last_loss_time)

\* C38: in a run of the engine that no outside caller feeds candles, no step
\* of run() changes a candle buffer or a snapshot, the snapshot of every symbol
\* stays absent, every symbol processed gets hold and places no order, and no
\* position is ever registered or closed and no closing order ever placed.
C38_LoopAloneOnlyHolds ==
  /\ [][/\ engine'.candle_buffer = engine.candle_buffer
        /\ engine'.indicators = engine.indicators
        /\ engine'.candle_log = engine.candle_log]_vars
  /\ [](/\ \A s \in Symbols : engine.indicators[s] = None
                               /\ engine.candle_buffer[s] = << >>
        /\ engine.last.op = "process_signal" =>
              /\ engine.last.signal = "hold"
              /\ engine.last.orders = {} /\ engine.last.admission = "none"
              /\ engine.last.pnl = None
        /\ rm.positions = << >> /\ rm.trade_history = << >>
        /\ rm.daily_trade_count = 0
        /\ close_log = << >> /\ engine.shutdown_orders = {})

\* C38's case: the second iteration of the loop has processed both symbols,
\* with a balance the Risk Manager was fed, and still holds.
C38_Witness ==
  /\ engine.ticks = 2 /\ engine.todo = << >> /\ engine.pc = "loop"
  /\ engine.last.op = "process_signal" /\ engine.last.symbol = "ETHUSDT"
  /\ engine.last.signal = "hold"
  /\ equity_log.seen /\ rm.positions = << >>

\* C39: after any sequence of exits the orchestrator executes, its own
\* consecutive-loss counter equals the Risk Manager's.
C39_LossCountersAgree ==
  engine.consecutive_losses = rm.consecutive_losses

\* C40: a get_status call that runs while the orchestrator registers and
\* closes positions returns one instant's snapshot: it raises nothing, the
\* open_positions of its metrics is the number of entries of its positions,
\* and its positions and recent_trades are those of the instant its metrics
\* were taken.
C40_StatusIsOneSnapshot ==
  LET status == callers[StatusReader]
  IN /\ status.pc # "raised"
     /\ status.pc = "returned" =>
          /\ status.metrics.open_positions = Cardinality(DOMAIN status.positions)
          /\ status.positions = StatusPositions(status.at.positions)
          /\ status.recent_trades = RecentTrades(status.at.trade_history)

====
